---- MODULE Spec2Model ----
(***************************************************************************)
(* Model of the AWS credential broker (AWSAuthService) of sre-bot:         *)
(* src/agents/sre_agent/aws_auth/{auth_service,config,exceptions}.py.      *)
(*                                                                         *)
(* Time is counted in whole seconds.  The token exchange (STS AssumeRole), *)
(* the boto3 client factory and GetCallerIdentity are collaborators whose  *)
(* outcome is chosen nondeterministically.  A coroutine of the broker runs *)
(* atomically between two suspension points (the awaits on the executor).  *)
(***************************************************************************)
EXTENDS Integers, Sequences, FiniteSets, TLC

\* ------------------------------------------------------------------ bounds
MaxTicks == 6          \* the clock advances at most this many times
MaxExchanges == 2      \* at most this many AssumeRole calls are issued in a run
MaxConcTicks == 2      \* the clock advances at most this many times under concurrent callers

\* ------------------------------------------------------- program constants
buffer_time == 5 * 60  \* auth_service.py:132
TickStep == buffer_time \div 2   \* granularity of the modelled clock
StartTime == 20 * TickStep       \* time.time() when the broker is constructed
MaxTime == StartTime + MaxTicks * TickStep

NoneVal == "None"      \* Python's None
Truthy(x) == x # NoneVal /\ x # ""     \* `if role_name:`, `region or ...`

Callers == {1, 2}      \* coroutines that may call into the broker
SeqCallers == {1}      \* the single caller of the sequential specification

default_region == "us-east-1"    \* config.py:77

\* RoleConfig objects registered in the configuration (config.py:17-30).
\* duration_seconds is validated into [900, 43200].
RoleConfig(arn, account, duration) ==
    [role_arn |-> arn, account_id |-> account,
     role_session_name |-> "SREBotSession",
     duration_seconds |-> duration, external_id |-> NoneVal]

RegisteredRoles ==
    [r \in {"prod", "dev"} |->
        IF r = "prod"
        THEN RoleConfig("arn:aws:iam::111111111111:role/Prod", "111111111111", 900)
        ELSE RoleConfig("arn:aws:iam::222222222222:role/Dev", "222222222222", 1200)]

\* values a caller may pass as role_name / region
RoleArgs == {NoneVal, "", "prod", "dev", "ghost"}
RegionArgs == {NoneVal, "eu-west-1"}
TTLChoices == {300, 900}
ProfileChoices == {NoneVal, "sre"}

\* AWSAuthConfig.get_role: self.roles.get(role_name); <<>> stands for None
\* and <<rc>> for the RoleConfig rc
get_role(cfg, role_name) ==
    IF role_name \in DOMAIN cfg.roles THEN <<cfg.roles[role_name]>> ELSE <<>>

\* ------------------------------------------------------------- exceptions
\* Every exception is a record of one shape; error_code is the sequence of
\* the parts of the Python string joined by "_" (<<>> stands for None).
Exc(type, error_code, role_arn, aws_error_code, detail) ==
    [type |-> type, error_code |-> error_code, role_arn |-> role_arn,
     aws_error_code |-> aws_error_code, detail |-> detail]

NoError == Exc("NoError", <<>>, NoneVal, NoneVal, NoneVal)

\* collaborators' native errors (botocore / builtins)
NoCredentialsError == Exc("NoCredentialsError", <<>>, NoneVal, NoneVal, NoneVal)
ProfileNotFound == Exc("ProfileNotFound", <<>>, NoneVal, NoneVal, NoneVal)
ClientError(code) == Exc("ClientError", <<>>, NoneVal, code, NoneVal)
OtherException == Exc("Exception", <<>>, NoneVal, NoneVal, NoneVal)
KeyError(key) == Exc("KeyError", <<>>, NoneVal, NoneVal, key)
\* asyncio.CancelledError, a BaseException: no `except Exception` catches it
CancelledError == Exc("CancelledError", <<>>, NoneVal, NoneVal, NoneVal)

ProviderCodes == {"AccessDenied", "InvalidParameterValue",
                  "MalformedPolicyDocument", "TokenRefreshRequired",
                  "Throttling"}

\* the broker's own taxonomy (exceptions.py)
AWSAuthError(error_code) == Exc("AWSAuthError", error_code, NoneVal, NoneVal, NoneVal)
AuthenticationError(role_arn) ==
    Exc("AuthenticationError", <<"AUTH_FAILED">>, role_arn, NoneVal, NoneVal)
ConfigurationError(config_field) ==
    Exc("ConfigurationError", <<"CONFIG_INVALID">>, NoneVal, NoneVal, config_field)
CredentialExpiredError(role_name) ==
    Exc("CredentialExpiredError", <<"CREDENTIALS_EXPIRED">>, NoneVal, NoneVal, role_name)
RoleNotFoundError(role_name) ==
    Exc("RoleNotFoundError", <<"ROLE_NOT_FOUND">>, NoneVal, NoneVal, role_name)
AssumeRoleError(role_arn, aws_error_code) ==
    Exc("AssumeRoleError",
        IF Truthy(aws_error_code)
        THEN <<"ASSUME_ROLE_FAILED", aws_error_code>>
        ELSE <<"ASSUME_ROLE_FAILED">>,
        role_arn, aws_error_code, NoneVal)
ClientCreationError(service) ==
    Exc("ClientCreationError", <<"CLIENT_CREATION_FAILED">>, NoneVal, NoneVal, service)

\* classes derived from AWSAuthError (isinstance(e, AWSAuthError))
AuthErrorTypes == {"AWSAuthError", "AuthenticationError", "ConfigurationError",
                   "CredentialExpiredError", "RoleNotFoundError",
                   "AssumeRoleError", "ClientCreationError"}
IsAWSAuthError(e) == e.type \in AuthErrorTypes

\* create_auth_error_from_boto_error(boto_error, context)
create_auth_error_from_boto_error(boto_error) ==
    IF boto_error.type = "NoCredentialsError" THEN AuthenticationError(NoneVal)
    ELSE IF boto_error.type = "ProfileNotFound" THEN ConfigurationError("aws_profile")
    ELSE IF boto_error.type = "ClientError" THEN
        IF boto_error.aws_error_code = "AccessDenied" THEN AuthenticationError(NoneVal)
        ELSE IF boto_error.aws_error_code = "InvalidParameterValue"
            THEN ConfigurationError(NoneVal)
        ELSE IF boto_error.aws_error_code = "TokenRefreshRequired"
            THEN CredentialExpiredError(NoneVal)
        ELSE AssumeRoleError("unknown", boto_error.aws_error_code)
    ELSE AWSAuthError(<<"UNKNOWN", "ERROR">>)

\* ------------------------------------------------- outcomes of a call
NoValue == [kind |-> "none"]
Ok(v) == [ok |-> TRUE, value |-> v, error |-> NoError]
Raise(e) == [ok |-> FALSE, value |-> NoValue, error |-> e]

\* ------------------------------------------------ ISO-8601 expiration
\* datetime.isoformat() of the aware UTC datetime `ts` seconds after the
\* epoch: the date as a day count, then HH:MM:SS and the UTC offset.
isoformat(ts) ==
    [days |-> ts \div 86400, hh |-> (ts % 86400) \div 3600,
     mm |-> (ts % 3600) \div 60, ss |-> ts % 60, tz |-> "+00:00"]

\* credentials.expiration.replace("Z", "+00:00")
replace_Z(s) == IF s.tz = "Z" THEN [s EXCEPT !.tz = "+00:00"] ELSE s

\* datetime.fromisoformat(s).timestamp(); "ValueError" for a string that
\* does not parse
fromisoformat(s) ==
    IF s.tz = "+00:00" /\ s.hh \in 0..23 /\ s.mm \in 0..59 /\ s.ss \in 0..59
    THEN [ok |-> TRUE, timestamp |-> s.days * 86400 + s.hh * 3600 + s.mm * 60 + s.ss]
    ELSE [ok |-> FALSE, timestamp |-> 0]

\* AWSCredentials built from the n-th AssumeRole response (lines 179-186)
AWSCredentials(n, expiration_ts) ==
    [access_key_id |-> <<"AccessKeyId", n>>,
     secret_access_key |-> <<"SecretAccessKey", n>>,
     session_token |-> <<"SessionToken", n>>,
     expiration |-> isoformat(expiration_ts),
     region |-> default_region]

\* ------------------------------------------------------------ collaborators
Native(name) ==
    CASE name = "NoCredentialsError" -> NoCredentialsError
      [] name = "ProfileNotFound" -> ProfileNotFound
      [] name \in ProviderCodes -> ClientError(name)
      [] OTHER -> OtherException

StsOutcomes == {"ok", "NoCredentialsError", "ProfileNotFound", "Exception"}
FactoryOutcomes == {"ok", "NoCredentialsError", "ProfileNotFound", "Exception"}
ExchangeOutcomes == {"ok", "Exception"} \cup ProviderCodes
IdentityOutcomes == {"ok", "NoCredentialsError", "Exception"} \cup ProviderCodes

\* no explicit keys: the ambient identity
NoKeys == [access_key_id |-> <<>>, secret_access_key |-> <<>>, session_token |-> <<>>]

\* boto3.client(service, aws_access_key_id=..., region_name=...) and
\* boto3.Session(profile_name=...).client(service, region_name=...);
\* built_with remembers the credential set the keys were taken from.
boto3_client(service, keys, region_name, profile, factory_out) ==
    IF factory_out = "ok"
    THEN Ok([kind |-> "client", service |-> service,
             aws_access_key_id |-> keys.access_key_id,
             aws_secret_access_key |-> keys.secret_access_key,
             aws_session_token |-> keys.session_token,
             region_name |-> region_name, profile |-> profile,
             built_with |-> keys])
    ELSE Raise(Native(factory_out))

\* sts_client.get_caller_identity() on a client handle
get_caller_identity(client, ident_out) ==
    IF ident_out = "ok"
    THEN Ok([Account |-> <<"Account", client.aws_access_key_id, client.profile>>,
             UserId |-> <<"UserId", client.aws_access_key_id, client.profile>>,
             Arn |-> <<"Arn", client.aws_access_key_id, client.profile>>])
    ELSE Raise(Native(ident_out))

\* ------------------------------------------------------------ AWSAuthService
NoStsClient == [created |-> FALSE, profile |-> NoneVal]

\* _credentials_valid with both comparisons made inclusive of the boundary
credentials_valid_strict(cfg, cache, role_name, t) ==
    /\ cfg.enable_caching
    /\ role_name \in DOMAIN cache
    /\ ~(t - cache[role_name].cache_time >= cfg.cache_ttl_seconds)
    /\ fromisoformat(replace_Z(cache[role_name].credentials.expiration)).ok
    /\ ~(fromisoformat(replace_Z(cache[role_name].credentials.expiration)).timestamp
            - t <= buffer_time)

\* _credentials_valid comparing against the expiry itself, without the buffer
credentials_valid_nobuffer(cfg, cache, role_name, t) ==
    /\ cfg.enable_caching
    /\ role_name \in DOMAIN cache
    /\ ~(t - cache[role_name].cache_time > cfg.cache_ttl_seconds)
    /\ fromisoformat(replace_Z(cache[role_name].credentials.expiration)).ok
    /\ ~(fromisoformat(replace_Z(cache[role_name].credentials.expiration)).timestamp
            - t < 0)

\* _credentials_valid with the TTL comparison turned round: a young entry
\* is taken for an expired one
credentials_valid_inverted(cfg, cache, role_name, t) ==
    /\ cfg.enable_caching
    /\ role_name \in DOMAIN cache
    /\ ~(t - cache[role_name].cache_time < cfg.cache_ttl_seconds)
    /\ fromisoformat(replace_Z(cache[role_name].credentials.expiration)).ok
    /\ ~(fromisoformat(replace_Z(cache[role_name].credentials.expiration)).timestamp
            - t < buffer_time)

\* _credentials_valid without the TTL test
credentials_valid_nottl(cfg, cache, role_name, t) ==
    /\ cfg.enable_caching
    /\ role_name \in DOMAIN cache
    /\ fromisoformat(replace_Z(cache[role_name].credentials.expiration)).ok
    /\ ~(fromisoformat(replace_Z(cache[role_name].credentials.expiration)).timestamp
            - t < buffer_time)

\* AWSAuthService._credentials_valid, evaluated at time t
credentials_valid(cfg, cache, role_name, t) ==
    IF ~cfg.enable_caching THEN FALSE
    ELSE IF role_name \notin DOMAIN cache THEN FALSE
    ELSE LET credentials == cache[role_name].credentials
             cache_time == cache[role_name].cache_time
             expiration == fromisoformat(replace_Z(credentials.expiration))
         IN  IF t - cache_time > cfg.cache_ttl_seconds THEN FALSE
             ELSE IF ~expiration.ok THEN FALSE
             ELSE IF expiration.timestamp - t < buffer_time THEN FALSE
             ELSE TRUE

VARIABLES
    now,               \* time.time()
    config,            \* AWSAuthService.config
    credential_cache,  \* AWSAuthService._credential_cache
    sts_client,        \* AWSAuthService._sts_client
    exchange_count,    \* AssumeRole calls issued so far
    session_log,       \* the AssumeRole calls issued in the current second
    environ,           \* os.environ when the configuration is loaded
    loaded,            \* what AWSAuthConfig.from_env() returned or raised
    pc,                \* per caller: where its coroutine stands
    call,              \* per caller: the operation in progress and its arguments
    result,            \* per caller: what the finished operation returned or raised
    trace,             \* per caller: collaborator calls made by the operation
    obs                \* per caller: what the operation saw when it was called

VARIABLES
    role_kwargs,       \* keyword arguments that RoleConfig(...) is called with
    role_built         \* what RoleConfig(...) returned or raised

VARIABLES
    tool_pc,           \* where the running AWS core tool stands
    tool_args,         \* the tool that was called and its arguments
    tool_out,          \* what the tool returned or raised
    tool_seen          \* the exception raised inside the tool's try block, if any

VARIABLES
    model_env,         \* os.environ when get_configured_model is called
    model_provider,    \* the provider branch get_configured_model entered
    model_out          \* what get_configured_model returned or raised

VARIABLES
    whitelist,           \* WHITELIST_ENABLED and WHITELIST_USERS of the Slack bot
    slack_now,           \* datetime.now() of the Slack bot, in units of the timeout
    sessions,            \* SessionManager.sessions: key |-> session object
    thread_session_map,  \* SessionManager.thread_session_map: thread key |-> key
    heap,                \* the ConversationSession objects created so far
    tasks,               \* the process_message_with_api tasks
    posted,              \* the author of each top-level message of the channel
    seen,                \* the events the handlers have received
    api_calls            \* the requests sent to the agent API

roleVars == <<role_kwargs, role_built>>
slackVars == <<whitelist, slack_now, sessions, thread_session_map, heap, tasks,
               posted, seen, api_calls>>
modelVars == <<model_env, model_provider, model_out>>
toolVars == <<tool_pc, tool_args, tool_out, tool_seen>>
extVars == <<roleVars, toolVars, modelVars, slackVars>>

vars == <<now, config, credential_cache, sts_client, exchange_count,
          session_log, environ, loaded, pc, call, result, trace, obs, extVars>>

\* ------------------------------------------------- steps of the coroutines
\* AWSAuthService._get_sts_client: the client is created on first use and
\* kept; sts_out is what boto3 does when it has to be created.
get_sts_client(sts_out) ==
    IF sts_client.created
    THEN [ok |-> TRUE, error |-> NoError, sts |-> sts_client, tr |-> <<>>,
          sts_res |-> "none"]
    ELSE IF sts_out = "ok"
    THEN [ok |-> TRUE, error |-> NoError,
          sts |-> [created |-> TRUE, profile |-> config.default_profile],
          tr |-> <<"sts_client">>, sts_res |-> sts_out]
    ELSE IF sts_out \in {"NoCredentialsError", "ProfileNotFound"}
    THEN [ok |-> FALSE, error |-> create_auth_error_from_boto_error(Native(sts_out)),
          sts |-> sts_client, tr |-> <<"sts_client">>, sts_res |-> sts_out]
    ELSE [ok |-> FALSE, error |-> AWSAuthError(<<>>),
          sts |-> sts_client, tr |-> <<"sts_client">>, sts_res |-> sts_out]

\* _refresh_credentials obtaining the STS client before it looks the role up
refresh_begin_sts_first(role_name, sts_out) ==
    LET role_config == get_role(config, role_name)
        g == get_sts_client(sts_out)
    IN  IF ~g.ok
        THEN [susp |-> FALSE, out |-> Raise(g.error), sts |-> g.sts,
              tr |-> g.tr, valid |-> FALSE,
              sts_res |-> g.sts_res, fact |-> "none"]
        ELSE IF role_config = <<>>
        THEN [susp |-> FALSE, out |-> Raise(RoleNotFoundError(role_name)),
              sts |-> g.sts, tr |-> g.tr, valid |-> FALSE,
              sts_res |-> g.sts_res, fact |-> "none"]
        ELSE [susp |-> TRUE, out |-> Ok(NoValue), sts |-> g.sts,
              tr |-> g.tr \o <<"assume_role">>, valid |-> FALSE,
              sts_res |-> g.sts_res, fact |-> "none"]

\* _refresh_credentials up to the await inside _assume_role (lines 242-247,
\* 156-177): susp is TRUE when sts_client.assume_role has been submitted.
refresh_begin(role_name, sts_out) ==
    LET role_config == get_role(config, role_name)
    IN  IF role_config = <<>>
        THEN [susp |-> FALSE, out |-> Raise(RoleNotFoundError(role_name)),
              sts |-> sts_client, tr |-> <<>>, valid |-> FALSE,
              sts_res |-> "none", fact |-> "none"]
        ELSE LET g == get_sts_client(sts_out)
             IN  IF g.ok
                 THEN [susp |-> TRUE, out |-> Ok(NoValue), sts |-> g.sts,
                       tr |-> g.tr \o <<"assume_role">>, valid |-> FALSE,
                       sts_res |-> g.sts_res, fact |-> "none"]
                 ELSE [susp |-> FALSE, out |-> Raise(g.error), sts |-> g.sts,
                       tr |-> g.tr, valid |-> FALSE,
                       sts_res |-> g.sts_res, fact |-> "none"]

\* _assume_role, line 159: f"{role_config.role_session_name}_{int(time.time())}"
\* at time t; the clock of the model counts whole seconds
session_name(role_config, t) == <<role_config.role_session_name, "_", t>>

\* _assume_role mapping a ClientError with the generic boto error mapper
assume_role_end_generic(role_config, serial, exch_out, t) ==
    IF exch_out = "ok"
    THEN Ok(AWSCredentials(serial, t + role_config.duration_seconds))
    ELSE IF exch_out \in ProviderCodes
    THEN Raise(create_auth_error_from_boto_error(ClientError(exch_out)))
    ELSE Raise(AWSAuthError(<<>>))

\* _assume_role from the return of the await (lines 177-229): the response
\* carries credentials that expire duration_seconds after they were issued.
assume_role_end(role_config, serial, exch_out, t) ==
    IF exch_out = "ok"
    THEN Ok(AWSCredentials(serial, t + role_config.duration_seconds))
    ELSE IF exch_out \in ProviderCodes
    THEN Raise(AssumeRoleError(role_config.role_arn, exch_out))
    ELSE Raise(AWSAuthError(<<>>))

\* _refresh_credentials keeping the entry that is already in the cache
refresh_store_first(cache, role_name, credentials, t) ==
    IF config.enable_caching /\ role_name \notin DOMAIN cache
    THEN [r \in DOMAIN cache \cup {role_name} |->
            IF r = role_name
            THEN [credentials |-> credentials, cache_time |-> t]
            ELSE cache[r]]
    ELSE cache

\* _refresh_credentials replacing the whole cache by the new entry
refresh_store_only(cache, role_name, credentials, t) ==
    IF config.enable_caching
    THEN [r \in {role_name} |-> [credentials |-> credentials, cache_time |-> t]]
    ELSE cache

\* _refresh_credentials after _assume_role returned (lines 249-251)
refresh_store(cache, role_name, credentials, t) ==
    IF config.enable_caching
    THEN [r \in DOMAIN cache \cup {role_name} |->
            IF r = role_name
            THEN [credentials |-> credentials, cache_time |-> t]
            ELSE cache[r]]
    ELSE cache

\* get_client without the clause for NoCredentialsError / ProfileNotFound
get_client_except_nocred(e, service) ==
    IF IsAWSAuthError(e) THEN e ELSE ClientCreationError(service)

\* get_client re-raising whatever it caught
get_client_except_reraise(e, service) == e

\* get_client, the except clauses (lines 312-320)
get_client_except(e, service) ==
    IF IsAWSAuthError(e) THEN e
    ELSE IF e.type \in {"NoCredentialsError", "ProfileNotFound"}
    THEN create_auth_error_from_boto_error(e)
    ELSE ClientCreationError(service)

get_client_wrap(o, service) ==
    IF o.ok THEN o ELSE Raise(get_client_except(o.error, service))

\* get_client, lines 285-297: read the entry and build the client
client_from_cache(cache, service, role_name, target_region, factory_out) ==
    IF role_name \notin DOMAIN cache
    THEN Raise(KeyError(role_name))
    ELSE boto3_client(service, cache[role_name].credentials, target_region,
                      NoneVal, factory_out)

\* get_client ignoring its region argument
target_region_of_default(region) == config.default_region

\* get_client, line 274: target_region = region or self.config.default_region
target_region_of(region) == IF Truthy(region) THEN region ELSE config.default_region

\* get_client building the ambient client without the default profile
get_client_begin_noprofile(service, role_name, region, sts_out, factory_out) ==
    IF Truthy(role_name)
    THEN IF credentials_valid(config, credential_cache, role_name, now)
         THEN [susp |-> FALSE,
               out |-> get_client_wrap(
                          client_from_cache(credential_cache, service, role_name,
                                            target_region_of(region), factory_out),
                          service),
               sts |-> sts_client, tr |-> <<"boto3_client">>, valid |-> TRUE,
               sts_res |-> "none", fact |-> factory_out]
         ELSE LET r == refresh_begin(role_name, sts_out)
              IN  [r EXCEPT !.out = get_client_wrap(@, service)]
    ELSE [susp |-> FALSE,
          out |-> get_client_wrap(
                     boto3_client(service, NoKeys, target_region_of(region),
                                  NoneVal, factory_out),
                     service),
          sts |-> sts_client, tr |-> <<"boto3_client">>, valid |-> FALSE,
          sts_res |-> "none", fact |-> factory_out]

\* get_client from its call to its first await or to its end
get_client_begin(service, role_name, region, sts_out, factory_out) ==
    IF Truthy(role_name)
    THEN IF credentials_valid(config, credential_cache, role_name, now)
         THEN [susp |-> FALSE,
               out |-> get_client_wrap(
                          client_from_cache(credential_cache, service, role_name,
                                            target_region_of(region), factory_out),
                          service),
               sts |-> sts_client, tr |-> <<"boto3_client">>, valid |-> TRUE,
               sts_res |-> "none", fact |-> factory_out]
         ELSE LET r == refresh_begin(role_name, sts_out)
              IN  [r EXCEPT !.out = get_client_wrap(@, service)]
    ELSE [susp |-> FALSE,
          out |-> get_client_wrap(
                     boto3_client(service, NoKeys, target_region_of(region),
                                  config.default_profile, factory_out),
                     service),
          sts |-> sts_client, tr |-> <<"boto3_client">>, valid |-> FALSE,
          sts_res |-> "none", fact |-> factory_out]

\* get_client reading the entry from the cache as it was before the refresh
\* stored its credentials
get_client_end_unstored(cache, service, role_name, region, refreshed, factory_out) ==
    IF refreshed.ok
    THEN get_client_wrap(
            client_from_cache(credential_cache, service, role_name,
                              target_region_of(region), factory_out),
            service)
    ELSE Raise(get_client_except(refreshed.error, service))

\* get_client from the return of the exchange to its end
get_client_end(cache, service, role_name, region, refreshed, factory_out) ==
    IF refreshed.ok
    THEN get_client_wrap(
            client_from_cache(cache, service, role_name,
                              target_region_of(region), factory_out),
            service)
    ELSE Raise(get_client_except(refreshed.error, service))

\* test_credentials, the except clause (lines 349-353)
test_credentials_except(e) == create_auth_error_from_boto_error(e)

\* test_credentials, lines 342-347
identity_summary(response, role_name) ==
    [kind |-> "identity", account |-> response.Account,
     user_id |-> response.UserId, arn |-> response.Arn, role_name |-> role_name]

EmptyCache == [r \in {} |-> NoneVal]

\* clear_cache dropping every entry whatever its argument
clear_cache_all(cache, role_name) == EmptyCache

\* clear_cache (lines 362-368)
clear_cache(cache, role_name) ==
    IF Truthy(role_name)
    THEN [r \in DOMAIN cache \ {role_name} |-> cache[r]]
    ELSE EmptyCache

\* get_cache_info reporting every entry as valid without looking at the clock
get_cache_info_stored(cfg, cache, t) ==
    [role_name \in DOMAIN cache |->
        [cached_at |-> isoformat(cache[role_name].cache_time),
         expires_at |-> isoformat(fromisoformat(replace_Z(
                            cache[role_name].credentials.expiration)).timestamp),
         valid |-> TRUE,
         region |-> cache[role_name].credentials.region]]

\* get_cache_info (lines 377-397), called at time t
get_cache_info(cfg, cache, t) ==
    [role_name \in DOMAIN cache |->
        LET credentials == cache[role_name].credentials
            cache_time == cache[role_name].cache_time
            expiration == fromisoformat(replace_Z(credentials.expiration))
        IN  IF expiration.ok
            THEN [cached_at |-> isoformat(cache_time),
                  expires_at |-> isoformat(expiration.timestamp),
                  valid |-> credentials_valid(cfg, cache, role_name, t),
                  region |-> credentials.region]
            ELSE [error |-> "ValueError", valid |-> FALSE]]

\* ------------------------------------------- configuration from os.environ
\* Text is a sequence of one-character strings (<<>> is the empty string
\* and the unset variable, both falsy), except the value of AWS_AUTH_ROLES,
\* a JSON document given by its syntax tree (`syntax` tells whether the
\* text parses, "empty" an unset variable).  A character is named by
\* itself or, outside ASCII, by its Unicode name.
Digits == {"0", "1", "2", "3", "4", "5", "6", "7", "8", "9"}
\* decimal digits of other scripts (category Nd), which int() reads, and
\* digits such as superscripts (category No), which it does not;
\* str.isdigit() is true of both
DecimalDigits == Digits \cup {"ARABIC-INDIC DIGIT THREE"}
UnicodeDigits == DecimalDigits \cup {"SUPERSCRIPT TWO"}
DigitValue(c) ==
    CASE c = "0" -> 0 [] c = "1" -> 1 [] c = "2" -> 2 [] c = "3" -> 3
      [] c = "4" -> 4 [] c = "5" -> 5 [] c = "6" -> 6 [] c = "7" -> 7
      [] c = "8" -> 8 [] c = "9" -> 9 [] c = "ARABIC-INDIC DIGIT THREE" -> 3

\* str.isdigit()
isdigit(text) == text # <<>> /\ \A i \in DOMAIN text : text[i] \in UnicodeDigits

\* the texts that int() parses (signs and blanks do not occur)
isdecimal(text) == text # <<>> /\ \A i \in DOMAIN text : text[i] \in DecimalDigits

RECURSIVE DecimalValue(_)
DecimalValue(text) ==
    IF text = <<>> THEN 0
    ELSE 10 * DecimalValue(SubSeq(text, 1, Len(text) - 1))
         + DigitValue(text[Len(text)])

\* int(text): ValueError for a text that is not a decimal number
int_of(text) ==
    IF isdecimal(text) THEN Ok(DecimalValue(text))
    ELSE Raise(Exc("ValueError", <<>>, NoneVal, NoneVal, NoneVal))

\* Python values that json.loads produces
PyNone == [type |-> "NoneType", v |-> <<>>]
PyStr(x) == [type |-> "str", v |-> x]
PyInt(n) == [type |-> "int", v |-> n]
PyList(items) == [type |-> "list", v |-> items]
PyDict(items) == [type |-> "dict", v |-> items]     \* <<key, value>> pairs in order

\* JSON syntax trees
JNull == [json |-> "null", of |-> <<>>]
JString(x) == [json |-> "string", of |-> x]
JNumber(n) == [json |-> "number", of |-> n]
JArray(items) == [json |-> "array", of |-> items]
JObject(members) == [json |-> "object", of |-> members]  \* <<name, value>> pairs
JText(syntax, doc) == [syntax |-> syntax, doc |-> doc]
NoText == JText("empty", JNull)

RECURSIVE json_decode(_)
json_decode(doc) ==
    CASE doc.json = "null" -> PyNone
      [] doc.json = "string" -> PyStr(doc.of)
      [] doc.json = "number" -> PyInt(doc.of)
      [] doc.json = "array" ->
            PyList([i \in DOMAIN doc.of |-> json_decode(doc.of[i])])
      [] doc.json = "object" ->
            PyDict([i \in DOMAIN doc.of |->
                       <<doc.of[i][1], json_decode(doc.of[i][2])>>])

\* json.loads(text)
json_loads(text) ==
    IF text.syntax = "ok" THEN Ok(json_decode(text.doc))
    ELSE Raise(Exc("JSONDecodeError", <<>>, NoneVal, NoneVal, NoneVal))

\* exceptions that `except (json.JSONDecodeError, ValueError)` catches:
\* pydantic's ValidationError and JSONDecodeError derive from ValueError
IsValueError(e) == e.type \in {"ValueError", "JSONDecodeError", "ValidationError"}
ValidationError(field) == Exc("ValidationError", <<>>, NoneVal, NoneVal, field)
TypeError == Exc("TypeError", <<>>, NoneVal, NoneVal, NoneVal)
AttributeError == Exc("AttributeError", <<>>, NoneVal, NoneVal, NoneVal)

\* the keyword arguments of RoleConfig(**role_data): the last pair of a name
HasKey(items, k) == \E i \in DOMAIN items : items[i][1] = k
Lookup(items, k) ==
    items[CHOOSE i \in DOMAIN items :
             /\ items[i][1] = k
             /\ \A j \in DOMAIN items : items[j][1] = k => j <= i][2]

\* str.startswith(prefix) and `sub in text`
startswith(text, prefix) ==
    Len(text) >= Len(prefix) /\ SubSeq(text, 1, Len(prefix)) = prefix
contains(text, sub) ==
    \E k \in 0..(Len(text) - Len(sub)) : SubSeq(text, k + 1, k + Len(sub)) = sub

ArnPrefix == <<"a", "r", "n", ":", "a", "w", "s", ":", "i", "a", "m", ":", ":">>
RoleMark == <<":", "r", "o", "l", "e", "/">>

\* validate_role_arn testing the prefix only
role_arn_valid_prefix(v) == startswith(v, ArnPrefix)

\* RoleConfig.validate_role_arn (config.py:32-41)
role_arn_valid(v) ==
    IF ~startswith(v, ArnPrefix) THEN FALSE
    ELSE IF ~contains(v, RoleMark) THEN FALSE
    ELSE TRUE

\* RoleConfig.validate_account_id (config.py:43-48)
account_id_valid(v) == isdigit(v) /\ Len(v) = 12

\* characters that \w matches in a str pattern: letters and digits of any
\* script and the underscore
AsciiLetters == {"a", "b", "Z"}
WordChars == AsciiLetters \cup UnicodeDigits
                 \cup {"_", "LATIN SMALL LETTER E WITH ACUTE"}
SessionPunctuation == {"+", "=", ",", ".", "@", "-"}

\* re.match(r"^[\w+=,.@-]+$", v): `$` matches at the end of the text and
\* also before a line feed that ends it
session_pattern_matches(v) ==
    LET body == IF v # <<>> /\ v[Len(v)] = "\n"
                THEN SubSeq(v, 1, Len(v) - 1) ELSE v
    IN  /\ body # <<>>
        /\ \A i \in DOMAIN body : body[i] \in WordChars \cup SessionPunctuation

\* RoleConfig.validate_session_name (config.py:50-61)
session_name_valid(v) ==
    IF ~session_pattern_matches(v) THEN FALSE
    ELSE IF Len(v) > 64 THEN FALSE
    ELSE TRUE

\* RoleConfig(**kwargs) as pydantic builds it (config.py:17-61): required
\* fields, field types, the bounds of duration_seconds and the validators
RoleConfig_init(kwargs) ==
    IF ~HasKey(kwargs, "role_arn") \/ ~HasKey(kwargs, "account_id")
    THEN Raise(ValidationError("required"))
    ELSE LET arn == Lookup(kwargs, "role_arn")
             acct == Lookup(kwargs, "account_id")
             dur == IF HasKey(kwargs, "duration_seconds")
                    THEN Lookup(kwargs, "duration_seconds") ELSE PyInt(3600)
             named == HasKey(kwargs, "role_session_name")
             sess == IF named THEN Lookup(kwargs, "role_session_name")
                     ELSE PyStr(<<>>)
         IN  IF arn.type # "str" \/ acct.type # "str" \/ dur.type # "int"
                \/ sess.type # "str"
             THEN Raise(ValidationError("type"))
             ELSE IF ~role_arn_valid(arn.v)
             THEN Raise(ValidationError("role_arn"))
             ELSE IF ~account_id_valid(acct.v)
             THEN Raise(ValidationError("account_id"))
             ELSE IF named /\ ~session_name_valid(sess.v)
             THEN Raise(ValidationError("role_session_name"))
             ELSE IF dur.v < 900 \/ dur.v > 43200
             THEN Raise(ValidationError("duration_seconds"))
             ELSE IF named
             THEN Ok([RoleConfig(arn.v, acct.v, dur.v)
                         EXCEPT !.role_session_name = sess.v])
             ELSE Ok(RoleConfig(arn.v, acct.v, dur.v))

NoRoles == [r \in {} |-> NoneVal]

\* from_env, lines 144-146: the loop over roles_data.items() from its i-th
\* item, `roles` being the dict built so far
RECURSIVE load_roles(_, _, _)
load_roles(items, i, roles) ==
    IF i > Len(items) THEN Ok(roles)
    ELSE LET name == items[i][1]
             role_data == items[i][2]
         IN  IF role_data.type # "dict" THEN Raise(TypeError)
             ELSE LET rc == RoleConfig_init(role_data.v)
                  IN  IF ~rc.ok THEN rc
                      ELSE load_roles(items, i + 1,
                              [r \in DOMAIN roles \cup {name} |->
                                  IF r = name THEN rc.value ELSE roles[r]])

\* from_env, lines 141-151: the roles that AWS_AUTH_ROLES yields; `logged`
\* tells whether logger.error was called
roles_from_env(roles_json) ==
    LET decoded == json_loads(roles_json)
        parsed == IF ~decoded.ok THEN decoded
                  ELSE IF decoded.value.type # "dict" THEN Raise(AttributeError)
                  ELSE load_roles(decoded.value.v, 1, NoRoles)
    IN  IF parsed.ok THEN [ok |-> TRUE, roles |-> parsed.value,
                           error |-> NoError, logged |-> FALSE]
        ELSE IF IsValueError(parsed.error)
        THEN [ok |-> TRUE, roles |-> NoRoles, error |-> NoError, logged |-> TRUE]
        ELSE [ok |-> FALSE, roles |-> NoRoles, error |-> parsed.error,
              logged |-> FALSE]

\* str.lower() of the flag values that occur
lower(x) == CASE x = "TRUE" -> "true" [] x = "Yes" -> "yes" [] OTHER -> x

\* AWSAuthConfig() with its defaults (config.py:77-86)
DefaultConfig ==
    [default_region |-> default_region, default_profile |-> NoneVal,
     roles |-> NoRoles, enable_role_chaining |-> FALSE,
     enable_caching |-> TRUE, cache_ttl_seconds |-> 3000]

\* os.environ without any of the variables that from_env reads;
\* AWS_AUTH_DEFAULT_ROLE holds what AWS_AUTH_DEFAULT_ROLE_ARN and
\* AWS_AUTH_DEFAULT_ACCOUNT_ID give as keyword arguments, <<>> when unset
NoEnviron ==
    [AWS_AUTH_ROLES |-> NoText, AWS_AUTH_ENABLE_CACHING |-> NoneVal,
     AWS_AUTH_CACHE_TTL |-> <<>>, AWS_AUTH_DEFAULT_ROLE |-> <<>>]

\* AWSAuthConfig.from_env (config.py:88-170) on the environment env
from_env(env) ==
    LET caching == IF Truthy(env.AWS_AUTH_ENABLE_CACHING)
                   THEN lower(env.AWS_AUTH_ENABLE_CACHING) \in {"true", "1", "yes"}
                   ELSE DefaultConfig.enable_caching
        ttl == IF env.AWS_AUTH_CACHE_TTL # <<>> /\ int_of(env.AWS_AUTH_CACHE_TTL).ok
               THEN int_of(env.AWS_AUTH_CACHE_TTL).value
               ELSE DefaultConfig.cache_ttl_seconds
        table == IF env.AWS_AUTH_ROLES.syntax # "empty"
                 THEN roles_from_env(env.AWS_AUTH_ROLES)
                 ELSE [ok |-> TRUE, roles |-> NoRoles, error |-> NoError,
                       logged |-> FALSE]
        single == IF env.AWS_AUTH_DEFAULT_ROLE # <<>>
                  THEN RoleConfig_init(env.AWS_AUTH_DEFAULT_ROLE)
                  ELSE Ok(NoValue)
        roles == IF env.AWS_AUTH_DEFAULT_ROLE # <<>> /\ single.ok
                 THEN [r \in DOMAIN table.roles \cup {"default"} |->
                          IF r = "default" THEN single.value ELSE table.roles[r]]
                 ELSE table.roles
    IN  IF ~table.ok THEN Raise(table.error)
        ELSE IF ~single.ok THEN single
        ELSE IF ttl < 300 \/ ttl > 43200
        THEN Raise(ValidationError("cache_ttl_seconds"))
        ELSE Ok([DefaultConfig EXCEPT !.roles = roles,
                                      !.enable_caching = caching,
                                      !.cache_ttl_seconds = ttl])

\* ----------------------------------------------------------------- state
IdleCall == [op |-> "none", service |-> NoneVal, role_name |-> NoneVal,
             region |-> NoneVal, serial |-> 0, role_config |-> <<>>,
             session_name |-> <<>>, client |-> NoValue]
NoResult == [ok |-> FALSE, value |-> NoValue, error |-> NoError]
\* what an operation saw: the outcome of the validity check, the cache and
\* the clock at the call, the clock when it last ran, and what each
\* collaborator it called answered
IdleObs == [valid |-> FALSE, cache0 |-> EmptyCache, now0 |-> 0, now1 |-> 0,
            sts_res |-> "none", exchanged |-> "none", fact |-> "none"]

\* no RoleConfig is under construction
RoleIdle == role_kwargs = <<>> /\ role_built = NoResult

\* no AWS core tool has been called
NoToolArgs == [tool |-> "none", service |-> NoneVal, role_name |-> NoneVal,
               region |-> NoneVal]
ToolIdle ==
    /\ tool_pc = "idle"
    /\ tool_args = NoToolArgs
    /\ tool_out = NoResult
    /\ tool_seen = NoError

\* the environment without any provider variable, and no model chosen yet
NoModelEnv ==
    [GOOGLE_API_KEY |-> PyNone, GOOGLE_AI_MODEL |-> PyNone,
     ANTHROPIC_API_KEY |-> PyNone, ANTHROPIC_MODEL |-> PyNone,
     BEDROCK_INFERENCE_PROFILE |-> PyNone]
ModelIdle ==
    /\ model_env = NoModelEnv
    /\ model_provider = "none"
    /\ model_out = NoResult

\* the Slack bot has started and has received no event
SlackTasks == {1, 2}   \* the message-processing tasks that run at the same time
SlackUsers == {"U1", "U2"}
Channel == "C1"
Threads == {"T1"}      \* ts of the top-level messages of the channel
NoTask == [pc |-> "free", user |-> NoneVal, thread_ts |-> NoneVal,
           original_message_ts |-> NoneVal, session |-> 0]
NoSessions == [k \in {} |-> 0]
SlackIdle ==
    /\ slack_now = 0
    /\ sessions = NoSessions
    /\ thread_session_map = NoSessions
    /\ heap = <<>>
    /\ tasks = [t \in SlackTasks |-> NoTask]
    /\ posted = [ts \in Threads |-> NoneVal]
    /\ seen = {}
    /\ api_calls = {}
WhitelistOff == [enabled |-> FALSE, users |-> {}]

\* the parts of the process outside the broker are at rest
ExtIdle == RoleIdle /\ ToolIdle /\ ModelIdle /\ SlackIdle /\ whitelist = WhitelistOff

\* the configurations the broker is constructed with: caching on and off,
\* a TTL that runs out before and after the expiry buffer of the roles, an
\* ambient profile set and unset
Configs ==
    {c \in [default_region : {default_region}, default_profile : ProfileChoices,
            roles : {RegisteredRoles}, enable_role_chaining : {FALSE},
            enable_caching : BOOLEAN, cache_ttl_seconds : TTLChoices] :
        (c.default_profile = NoneVal) <=>
            (c.enable_caching <=> c.cache_ttl_seconds = 300)}

\* AWSAuthService.__init__ (lines 48-50)
Init ==
    /\ now = StartTime
    /\ config \in Configs
    /\ credential_cache = EmptyCache
    /\ sts_client = NoStsClient
    /\ exchange_count = 0
    /\ session_log = <<>>
    /\ environ = NoEnviron
    /\ loaded = NoResult
    /\ ExtIdle
    /\ pc = [p \in Callers |-> "idle"]
    /\ call = [p \in Callers |-> IdleCall]
    /\ result = [p \in Callers |-> NoResult]
    /\ trace = [p \in Callers |-> <<>>]
    /\ obs = [p \in Callers |-> IdleObs]

\* The coroutine of caller p, whose operation is described by c, has
\* produced `out` for get_client / refresh: the operation ends, or
\* test_credentials goes on to await get_caller_identity (line 337).
Complete(p, c, out, tr) ==
    IF c.op = "test_credentials" /\ out.ok
    THEN /\ pc' = [pc EXCEPT ![p] = "caller_identity"]
         /\ call' = [call EXCEPT ![p] = [c EXCEPT !.client = out.value]]
         /\ result' = [result EXCEPT ![p] = NoResult]
         /\ trace' = [trace EXCEPT ![p] = tr \o <<"get_caller_identity">>]
    ELSE /\ pc' = [pc EXCEPT ![p] = "done"]
         /\ call' = [call EXCEPT ![p] = c]
         /\ result' = [result EXCEPT ![p] =
                          IF c.op = "test_credentials"
                          THEN Raise(test_credentials_except(out.error))
                          ELSE out]
         /\ trace' = [trace EXCEPT ![p] = tr]

\* The call of an operation: it runs to its first await or to its end.
Begin(p, op, service, role_name, region, g) ==
    /\ g.susp => exchange_count < MaxExchanges
    /\ sts_client' = g.sts
    /\ exchange_count' = IF g.susp THEN exchange_count + 1 ELSE exchange_count
    /\ session_log' = IF g.susp
                      THEN Append(session_log,
                                  [role_name |-> role_name,
                                   session_name |-> session_name(
                                       get_role(config, role_name)[1], now)])
                      ELSE session_log
    /\ obs' = [obs EXCEPT ![p] =
                  [valid |-> g.valid, cache0 |-> credential_cache, now0 |-> now,
                   now1 |-> now,
                   sts_res |-> g.sts_res, exchanged |-> "none", fact |-> g.fact]]
    /\ LET rc == get_role(config, role_name)
           c == [op |-> op, service |-> service, role_name |-> role_name,
                 region |-> region, serial |-> 0, role_config |-> <<>>,
                 session_name |-> <<>>, client |-> NoValue]
       IN  IF g.susp
           THEN /\ pc' = [pc EXCEPT ![p] = "assume_role"]
                /\ call' = [call EXCEPT ![p] =
                              [c EXCEPT !.serial = exchange_count + 1,
                                        !.role_config = rc,
                                        !.session_name =
                                            session_name(rc[1], now)]]
                /\ result' = [result EXCEPT ![p] = NoResult]
                /\ trace' = [trace EXCEPT ![p] = g.tr]
           ELSE Complete(p, c, g.out, g.tr)
    /\ UNCHANGED <<now, config, environ, loaded, extVars, credential_cache>>

\* await auth_service.get_client(service, role_name, region)
GetClient(p, role_name, region, sts_out, factory_out) ==
    /\ pc[p] = "idle"
    /\ Begin(p, "get_client", "s3", role_name, region,
             get_client_begin("s3", role_name, region, sts_out, factory_out))

\* await auth_service._refresh_credentials(role_name)
Refresh(p, role_name, sts_out) ==
    /\ pc[p] = "idle"
    /\ Begin(p, "refresh", NoneVal, role_name, NoneVal,
             refresh_begin(role_name, sts_out))

\* await auth_service.test_credentials(role_name): get_client("sts", ...)
TestCredentials(p, role_name, sts_out, factory_out) ==
    /\ pc[p] = "idle"
    /\ Begin(p, "test_credentials", "sts", role_name, NoneVal,
             get_client_begin("sts", role_name, NoneVal, sts_out, factory_out))

\* _refresh_credentials submitting the exchange again when it has failed
AssumeRoleReturn_retry(p, exch_out, factory_out) ==
    /\ pc[p] = "assume_role"
    /\ LET c == call[p]
           creds == assume_role_end(c.role_config[1], c.serial, exch_out, now)
           cache1 == IF creds.ok
                     THEN refresh_store(credential_cache, c.role_name, creds.value, now)
                     ELSE credential_cache
           refreshed == IF creds.ok THEN Ok(NoValue) ELSE creds
           out == IF c.op = "refresh"
                  THEN refreshed
                  ELSE get_client_end(cache1, c.service, c.role_name, c.region,
                                      refreshed, factory_out)
           built == c.op # "refresh" /\ refreshed.ok /\ c.role_name \in DOMAIN cache1
           tr == IF built THEN trace[p] \o <<"boto3_client">> ELSE trace[p]
       IN  IF ~creds.ok /\ exchange_count < MaxExchanges
           THEN /\ exchange_count' = exchange_count + 1
                /\ call' = [call EXCEPT ![p].serial = exchange_count + 1]
                /\ trace' = [trace EXCEPT ![p] = @ \o <<"assume_role">>]
                /\ UNCHANGED <<credential_cache, obs, pc, result>>
           ELSE /\ credential_cache' = cache1
                /\ obs' = [obs EXCEPT ![p].exchanged = exch_out, ![p].now1 = now,
                                      ![p].fact = IF built THEN factory_out ELSE "none"]
                /\ Complete(p, c, out, tr)
                /\ UNCHANGED exchange_count
    /\ UNCHANGED <<now, config, environ, loaded, extVars, session_log, sts_client>>

\* The executor hands back the outcome of sts_client.assume_role and the
\* coroutine runs on: _assume_role, _refresh_credentials, then get_client.
AssumeRoleReturn(p, exch_out, factory_out) ==
    /\ pc[p] = "assume_role"
    /\ LET c == call[p]
           creds == assume_role_end(c.role_config[1], c.serial, exch_out, now)
           cache1 == IF creds.ok
                     THEN refresh_store(credential_cache, c.role_name, creds.value, now)
                     ELSE credential_cache
           refreshed == IF creds.ok THEN Ok(NoValue) ELSE creds
           out == IF c.op = "refresh"
                  THEN refreshed
                  ELSE get_client_end(cache1, c.service, c.role_name, c.region,
                                      refreshed, factory_out)
           built == c.op # "refresh" /\ refreshed.ok /\ c.role_name \in DOMAIN cache1
           tr == IF built THEN trace[p] \o <<"boto3_client">> ELSE trace[p]
       IN  /\ credential_cache' = cache1
           /\ obs' = [obs EXCEPT ![p].exchanged = exch_out, ![p].now1 = now,
                                 ![p].fact = IF built THEN factory_out ELSE "none"]
           /\ Complete(p, c, out, tr)
    /\ UNCHANGED <<now, config, environ, loaded, extVars, session_log, sts_client, exchange_count>>

\* The executor hands back the outcome of get_caller_identity (line 337).
CallerIdentityReturn(p, ident_out) ==
    /\ pc[p] = "caller_identity"
    /\ LET c == call[p]
           r == get_caller_identity(c.client, ident_out)
       IN  /\ pc' = [pc EXCEPT ![p] = "done"]
           /\ result' = [result EXCEPT ![p] =
                            IF r.ok
                            THEN Ok(identity_summary(r.value, c.role_name))
                            ELSE Raise(test_credentials_except(r.error))]
    /\ UNCHANGED <<now, config, environ, loaded, extVars, session_log, credential_cache, sts_client, exchange_count,
                   call, trace, obs>>

\* The caller has taken the result of its operation.
Return(p) ==
    /\ pc[p] = "done"
    /\ pc' = [pc EXCEPT ![p] = "idle"]
    /\ call' = [call EXCEPT ![p] = IdleCall]
    /\ result' = [result EXCEPT ![p] = NoResult]
    /\ trace' = [trace EXCEPT ![p] = <<>>]
    /\ obs' = [obs EXCEPT ![p] = IdleObs]
    /\ UNCHANGED <<now, config, environ, loaded, extVars, session_log, credential_cache, sts_client, exchange_count>>

\* A synchronous operation of caller p has run from its call to its end.
Finish(p, op, role_name, out) ==
    /\ pc' = [pc EXCEPT ![p] = "done"]
    /\ call' = [call EXCEPT ![p] = [IdleCall EXCEPT !.op = op,
                                                     !.role_name = role_name]]
    /\ result' = [result EXCEPT ![p] = out]
    /\ trace' = [trace EXCEPT ![p] = <<>>]
    /\ obs' = [obs EXCEPT ![p] = [IdleObs EXCEPT !.cache0 = credential_cache,
                                                 !.now0 = now, !.now1 = now]]

\* auth_service.clear_cache(role_name), a synchronous call of caller p
ClearCache(p, role_name) ==
    /\ pc[p] = "idle"
    /\ credential_cache' = clear_cache(credential_cache, role_name)
    /\ Finish(p, "clear_cache", role_name, Ok(NoValue))
    /\ UNCHANGED <<now, config, environ, loaded, extVars, session_log, sts_client, exchange_count>>

\* auth_service.get_cache_info(), a synchronous call of caller p
GetCacheInfo(p) ==
    /\ pc[p] = "idle"
    /\ Finish(p, "cache_info", NoneVal,
              Ok([kind |-> "cache_info",
                  info |-> get_cache_info(config, credential_cache, now)]))
    /\ UNCHANGED <<now, config, environ, loaded, extVars, session_log, credential_cache, sts_client, exchange_count>>

\* The clock advances, and the log of the exchange calls of the second
\* that has passed is closed: a later call reads a later clock.
\* A finished operation is looked at in the instant
\* it ends: Return, which is always enabled, comes first.
Tick ==
    /\ now + TickStep <= MaxTime
    /\ \A p \in Callers : pc[p] # "done"
    /\ now' = now + TickStep
    /\ session_log' = <<>>
    /\ UNCHANGED <<config, environ, loaded, extVars, credential_cache, sts_client, exchange_count,
                   pc, call, result, trace, obs>>

\* One caller at a time: the operations of the broker called in sequence.
Next ==
    \/ \E p \in SeqCallers, role_name \in RoleArgs, region \in RegionArgs,
          sts_out \in StsOutcomes, factory_out \in FactoryOutcomes :
            GetClient(p, role_name, region, sts_out, factory_out)
    \/ \E p \in SeqCallers, role_name \in RoleArgs, sts_out \in StsOutcomes :
            Refresh(p, role_name, sts_out)
    \/ \E p \in SeqCallers, role_name \in RoleArgs,
          sts_out \in StsOutcomes, factory_out \in FactoryOutcomes :
            TestCredentials(p, role_name, sts_out, factory_out)
    \/ \E p \in SeqCallers, exch_out \in ExchangeOutcomes,
          factory_out \in FactoryOutcomes :
            AssumeRoleReturn(p, exch_out, factory_out)
    \/ \E p \in SeqCallers, ident_out \in IdentityOutcomes :
            CallerIdentityReturn(p, ident_out)
    \/ \E p \in SeqCallers : Return(p)
    \/ \E p \in SeqCallers, role_name \in RoleArgs : ClearCache(p, role_name)
    \/ \E p \in SeqCallers : GetCacheInfo(p)
    \/ Tick

Spec == Init /\ [][Next]_vars

\* ------------------------------------------------- concurrent callers
\* what the callers of the concurrent specification pass and what the
\* collaborators answer them
ConcRoleArgs == {"prod", "dev"}
ConcStsOutcomes == {"ok", "NoCredentialsError"}
ConcFactoryOutcomes == {"ok", "Exception"}
ConcExchangeOutcomes == {"ok", "AccessDenied"}

\* The task of caller p is cancelled while it awaits the executor
\* (line 102): CancelledError is raised at the await and passes every
\* `except Exception` of _assume_role and get_client, so the coroutine ends
\* there.  The worker thread is not interrupted: sts_client.assume_role
\* runs to its end with outcome exch_out, which nobody receives.
Cancel(p, exch_out) ==
    /\ pc[p] = "assume_role"
    /\ pc' = [pc EXCEPT ![p] = "done"]
    /\ result' = [result EXCEPT ![p] = Raise(CancelledError)]
    /\ obs' = [obs EXCEPT ![p].exchanged = exch_out, ![p].now1 = now]
    /\ UNCHANGED <<now, config, environ, loaded, extVars, session_log, credential_cache, sts_client,
                   exchange_count, call, trace>>

\* The clock advances while the callers run.
TickConc ==
    /\ now + TickStep <= StartTime + MaxConcTicks * TickStep
    /\ now' = now + TickStep
    /\ session_log' = <<>>
    /\ UNCHANGED <<config, environ, loaded, extVars, credential_cache, sts_client, exchange_count,
                   pc, call, result, trace, obs>>

\* the roles a caller asks for: the callers are interchangeable, so the
\* second one keeps to the role with the shortest credentials
ConcRolesOf(p) == IF p \in SeqCallers THEN ConcRoleArgs ELSE {"prod"}

\* Several tasks call get_client on the one broker of the process.
NextConc ==
    \/ \E p \in Callers : \E role_name \in ConcRolesOf(p),
          sts_out \in ConcStsOutcomes, factory_out \in ConcFactoryOutcomes :
            GetClient(p, role_name, NoneVal, sts_out, factory_out)
    \/ \E p \in Callers, exch_out \in ConcExchangeOutcomes,
          factory_out \in ConcFactoryOutcomes :
            AssumeRoleReturn(p, exch_out, factory_out)
    \/ \E p \in Callers, exch_out \in ConcExchangeOutcomes : Cancel(p, exch_out)
    \/ \E p \in Callers : Return(p)
    \/ TickConc

SpecConc == Init /\ [][NextConc]_vars

\* ------------------------------------------------------- registering roles
\* the role names and the binding that add_role is called with
AddedRoles == {"ghost"}
AddedConfigs == {RoleConfig("arn:aws:iam::333333333333:role/Ghost", "333333333333", 900)}
AdminRoleArgs == {"prod", "ghost"}

\* add_role replacing the table by the one role
add_role_only(cfg, name, role_config) ==
    [cfg EXCEPT !.roles = [r \in {name} |-> role_config]]

\* AWSAuthConfig.add_role (config.py:184-193): self.roles[name] = role_config
add_role(cfg, name, role_config) ==
    [cfg EXCEPT !.roles = [r \in DOMAIN cfg.roles \cup {name} |->
                              IF r = name THEN role_config ELSE cfg.roles[r]]]

\* auth_service.config.add_role(name, role_config), a synchronous call that
\* any task may make while the coroutines of the broker are suspended
AddRole(name, role_config) ==
    /\ config' = add_role(config, name, role_config)
    /\ UNCHANGED <<now, environ, loaded, extVars, session_log, credential_cache,
                   sts_client, exchange_count, pc, call, result, trace, obs>>

\* get_client, refresh, clear_cache and add_role on the one broker
NextAdmin ==
    \/ \E p \in SeqCallers, role_name \in AdminRoleArgs,
          sts_out \in ConcStsOutcomes, factory_out \in ConcFactoryOutcomes :
            GetClient(p, role_name, NoneVal, sts_out, factory_out)
    \/ \E p \in SeqCallers, role_name \in AdminRoleArgs, sts_out \in ConcStsOutcomes :
            Refresh(p, role_name, sts_out)
    \/ \E p \in SeqCallers, exch_out \in ConcExchangeOutcomes,
          factory_out \in ConcFactoryOutcomes :
            AssumeRoleReturn(p, exch_out, factory_out)
    \/ \E p \in Callers : Return(p)
    \/ \E p \in Callers \ SeqCallers, role_name \in {NoneVal, "prod"} :
            ClearCache(p, role_name)
    \/ \E name \in AddedRoles, role_config \in AddedConfigs : AddRole(name, role_config)
    \/ TickConc

SpecAdmin == Init /\ [][NextAdmin]_vars

\* ------------------------------------------- clearing under concurrent callers
ClearArgs == {NoneVal, "prod"}

\* get_client called by one task and clear_cache by another: a clear_cache
\* runs from its call to its end whenever no coroutine is running, that is,
\* at any suspension point of the get_client
NextClear ==
    \/ \E p \in SeqCallers, role_name \in ConcRoleArgs,
          sts_out \in ConcStsOutcomes, factory_out \in ConcFactoryOutcomes :
            GetClient(p, role_name, NoneVal, sts_out, factory_out)
    \/ \E p \in SeqCallers, exch_out \in ConcExchangeOutcomes,
          factory_out \in ConcFactoryOutcomes :
            AssumeRoleReturn(p, exch_out, factory_out)
    \/ \E p \in Callers \ SeqCallers, role_name \in ClearArgs : ClearCache(p, role_name)
    \/ \E p \in Callers : Return(p)
    \/ TickConc

SpecClear == Init /\ [][NextClear]_vars

\* ------------------------------------------------- loading from os.environ
TwelveDigits == [i \in 1..12 |-> "1"]
ElevenDigits == [i \in 1..11 |-> "1"]
ProdArn == ArnPrefix \o TwelveDigits \o RoleMark \o <<"P", "r", "o", "d">>
UserArn == ArnPrefix \o TwelveDigits \o <<":", "u", "s", "e", "r", "/", "B", "o", "b">>

\* values found under a role name in AWS_AUTH_ROLES: a role that validates,
\* roles that do not, and values that are no JSON object
RoleEntries ==
    {JObject(<< <<"role_arn", JString(ProdArn)>>,
                <<"account_id", JString(TwelveDigits)>> >>),
     JObject(<< <<"role_arn", JString(UserArn)>>,
                <<"account_id", JString(TwelveDigits)>> >>),
     JObject(<< <<"role_arn", JString(ProdArn)>>,
                <<"account_id", JString(ElevenDigits)>> >>),
     JObject(<< <<"role_arn", JString(ProdArn)>>,
                <<"account_id", JString(TwelveDigits)>>,
                <<"duration_seconds", JNumber(899)>> >>),
     JObject(<< <<"role_arn", JString(ProdArn)>> >>),
     JString(ProdArn),
     JNull,
     JArray(<<JString(ProdArn)>>)}

\* values of AWS_AUTH_ROLES
RoleTables ==
    {NoText, JText("bad", JNull),
     JText("ok", JNull), JText("ok", JArray(<<>>)), JText("ok", JNumber(1)),
     JText("ok", JString(ProdArn)), JText("ok", JObject(<<>>))}
    \cup {JText("ok", JObject(<< <<"prod", e>> >>)) : e \in RoleEntries}
    \cup {JText("ok", JObject(<< <<"prod", e1>>, <<"dev", e2>> >>)) :
             e1 \in RoleEntries, e2 \in RoleEntries}

\* the environments the configuration is loaded from
Environs ==
    [AWS_AUTH_ROLES : RoleTables,
     AWS_AUTH_ENABLE_CACHING : {NoneVal, "TRUE", "false"},
     AWS_AUTH_CACHE_TTL : {<<>>, <<"a", "b", "c">>, <<"6", "0", "0">>, <<"6", "0">>},
     AWS_AUTH_DEFAULT_ROLE :
        {<<>>, << <<"role_arn", PyStr(ProdArn)>>,
                  <<"account_id", PyStr(TwelveDigits)>> >>}]

\* the process before AWSAuthService() is constructed
InitEnv ==
    /\ environ \in Environs
    /\ loaded = NoResult
    /\ ExtIdle
    /\ config = DefaultConfig
    /\ now = StartTime
    /\ credential_cache = EmptyCache
    /\ sts_client = NoStsClient
    /\ exchange_count = 0
    /\ session_log = <<>>
    /\ pc = [p \in Callers |-> "idle"]
    /\ call = [p \in Callers |-> IdleCall]
    /\ result = [p \in Callers |-> NoResult]
    /\ trace = [p \in Callers |-> <<>>]
    /\ obs = [p \in Callers |-> IdleObs]

\* from_env has run
Loaded == loaded.ok \/ loaded.error # NoError

\* AWSAuthService() without a config (auth_service.py:48):
\* self.config = AWSAuthConfig.from_env()
FromEnv ==
    /\ ~Loaded
    /\ loaded' = from_env(environ)
    /\ config' = IF from_env(environ).ok THEN from_env(environ).value ELSE config
    /\ UNCHANGED <<now, environ, credential_cache, sts_client, exchange_count,
                   session_log, pc, call, result, trace, obs, extVars>>

NextEnv == FromEnv

SpecEnv == InitEnv /\ [][NextEnv]_vars

\* ------------------------------------------------ constructing a RoleConfig
MaxPieces == 3         \* a role ARN is put together from at most this many pieces

\* the broker has not been constructed
Unconstructed ==
    /\ config = DefaultConfig
    /\ now = StartTime
    /\ credential_cache = EmptyCache
    /\ sts_client = NoStsClient
    /\ exchange_count = 0
    /\ session_log = <<>>
    /\ environ = NoEnviron
    /\ loaded = NoResult
    /\ pc = [p \in Callers |-> "idle"]
    /\ call = [p \in Callers |-> IdleCall]
    /\ result = [p \in Callers |-> NoResult]
    /\ trace = [p \in Callers |-> <<>>]
    /\ obs = [p \in Callers |-> IdleObs]

brokerVars == <<now, config, credential_cache, sts_client, exchange_count,
                session_log, environ, loaded, pc, call, result, trace, obs>>

\* pieces of text that role ARNs are put together from
ArnPieces ==
    {ArnPrefix, SubSeq(ArnPrefix, 1, Len(ArnPrefix) - 1),
     RoleMark, SubSeq(RoleMark, 1, Len(RoleMark) - 1), <<"1", "2">>, <<" ">>}

RECURSIVE Concats(_)
Concats(n) ==
    IF n = 0 THEN {<<>>}
    ELSE Concats(n - 1) \cup {a \o b : a \in ArnPieces, b \in Concats(n - 1)}

ArnTexts == Concats(MaxPieces)

Repeat(c, n) == [i \in 1..n |-> c]

\* account ids: twelve digits, too few, too many, a letter or a blank among
\* them, digits outside ASCII
AccountTexts ==
    {TwelveDigits, ElevenDigits, Repeat("1", 13), <<>>,
     ElevenDigits \o <<"a">>, ElevenDigits \o <<" ">>,
     <<"1", "2", "3", "4", "5", "6", "7", "8", "9", "0", "1", "2">>,
     ElevenDigits \o <<"ARABIC-INDIC DIGIT THREE">>,
     Repeat("SUPERSCRIPT TWO", 12)}

\* session names: of the allowed characters, with other characters, empty,
\* 64 and 65 characters long
SessionTexts ==
    {<<"Z", "a", "b", "1">>, <<"a", "+", "=", ",", ".", "@", "-">>, <<>>,
     <<"a", "@", "b", "#", "Z">>, <<"a", " ", "b">>, <<"a", "/">>,
     <<"a", "_", "b">>, <<"a", "\n">>, <<"\n">>, <<"a", "\n", "b">>,
     <<"LATIN SMALL LETTER E WITH ACUTE">>,
     Repeat("a", 64), Repeat("a", 65), Repeat("a", 63) \o <<"\n">>,
     Repeat("a", 64) \o <<"\n">>}

\* keyword arguments of RoleConfig(...): role_arn and account_id, with and
\* without role_session_name
RoleInputs ==
    {<< <<"role_arn", PyStr(a)>>, <<"account_id", PyStr(c)>> >> :
        a \in ArnTexts, c \in AccountTexts}
    \cup {<< <<"role_arn", PyStr(a)>>, <<"account_id", PyStr(c)>>,
             <<"role_session_name", PyStr(n)>> >> :
            a \in {ProdArn, UserArn}, c \in AccountTexts, n \in SessionTexts}

InitRole ==
    /\ role_kwargs \in RoleInputs
    /\ role_built = NoResult
    /\ Unconstructed
    /\ ToolIdle
    /\ ModelIdle
    /\ SlackIdle
    /\ whitelist = WhitelistOff

\* RoleConfig(...) has returned or raised
Built == role_built.ok \/ role_built.error # NoError

\* RoleConfig(**role_kwargs)
Construct ==
    /\ ~Built
    /\ role_built' = RoleConfig_init(role_kwargs)
    /\ UNCHANGED <<role_kwargs, brokerVars, toolVars, modelVars, slackVars>>

NextRole == Construct

SpecRole == InitRole /\ [][NextRole]_vars

\* ------------------------------------------------------- AWS core tools
\* sub_agents/aws_core/tools/aws_core_tools.py.  The broker is a collaborator
\* of a tool: get_auth_service() and get_client() answer with a handle or
\* with one of the broker's errors, the service call with a response, with a
\* botocore error or with a response that lacks a field the tool reads.
Tools == {"get_caller_identity", "list_s3_buckets", "list_ec2_instances",
          "list_rds_instances", "get_aws_regions"}
ToolRoleArgs == {NoneVal, "", "prod", "ghost"}
ToolRegionArgs == {NoneVal, "us-west-2"}
RegionServices == {"ec2", "s3"}     \* `service` of get_aws_regions

\* the service a tool asks the broker for
tool_service(tool, service) ==
    CASE tool = "get_caller_identity" -> "sts"
      [] tool = "list_s3_buckets" -> "s3"
      [] tool = "list_ec2_instances" -> "ec2"
      [] tool = "list_rds_instances" -> "rds"
      [] tool = "get_aws_regions" -> service

\* the tools that take a region
RegionTools == {"list_ec2_instances", "list_rds_instances"}

\* the calls a tool can receive
ToolCalls ==
    {a \in [tool : Tools, service : {"sts", "s3", "ec2", "rds"},
            role_name : ToolRoleArgs, region : ToolRegionArgs] :
        /\ a.service \in (IF a.tool = "get_aws_regions" THEN RegionServices
                          ELSE {tool_service(a.tool, NoneVal)})
        /\ a.tool \notin RegionTools => a.region = NoneVal}

\* args[0] of an exception: the model keeps the kind and the subject of the
\* failure in place of the words
exc_message(e) == [failure |-> e.type, about |-> e.detail, code |-> e.aws_error_code]

\* str(e): AWSAuthError.__str__ puts the error code in brackets before the
\* message, any other exception prints its message
str_of(e) ==
    IF IsAWSAuthError(e) /\ e.error_code # <<>>
    THEN [bracketed |-> e.error_code, message |-> exc_message(e)]
    ELSE [bracketed |-> <<>>, message |-> exc_message(e)]

\* f"{starts}{text}", and the absent "message" key of a success dict
fstring(starts, text) == [starts |-> starts, text |-> text]
NoMessage == fstring("", str_of(NoError))

\* the words each tool's error message starts with
failed_to(tool) ==
    CASE tool = "get_caller_identity" -> "Failed to get caller identity: "
      [] tool = "list_s3_buckets" -> "Failed to list S3 buckets: "
      [] tool = "list_ec2_instances" -> "Failed to list EC2 instances: "
      [] tool = "list_rds_instances" -> "Failed to list RDS instances: "
      [] tool = "get_aws_regions" -> "Failed to get AWS regions: "

\* `x or "default"`
or_default(x) == IF Truthy(x) THEN x ELSE "default"

\* the dict of the `except Exception as e` branch
tool_error(args, e) ==
    Ok([kind |-> "dict", status |-> "error",
        message |-> fstring(failed_to(args.tool), str_of(e)),
        role_name |-> or_default(args.role_name),
        region |-> IF args.tool \in RegionTools THEN or_default(args.region)
                   ELSE NoneVal])

\* the dict a tool returns at the end of its try block
tool_success(args) ==
    Ok([kind |-> "dict", status |-> "success", message |-> NoMessage,
        role_name |-> or_default(args.role_name),
        region |-> IF args.tool \in RegionTools THEN or_default(args.region)
                   ELSE NoneVal])

\* the handler reporting every exception as a success
tool_handler_success(args, e) == tool_success(args)

\* `except Exception as e`: every exception but a BaseException such as
\* asyncio.CancelledError is turned into the error dict
tool_handler(args, e) ==
    IF e.type = "CancelledError" THEN Raise(e) ELSE tool_error(args, e)

\* what get_auth_service() can do: return the broker, or raise what
\* AWSAuthService() raises on first use
AuthServiceOutcomes == {"ok", "ValidationError"}

\* what awaiting get_client can raise
GetClientErrors(args) ==
    {RoleNotFoundError(args.role_name), AuthenticationError(NoneVal),
     AssumeRoleError(NoneVal, "AccessDenied"), ClientCreationError(args.service)}
GetClientOutcomes(args) == {Ok(NoValue)} \cup {Raise(e) : e \in GetClientErrors(args)}

\* what awaiting the service call, and reading its response, can raise
ServiceOutcomes == {Ok(NoValue), Raise(ClientError("AccessDenied")),
                    Raise(KeyError("Name")), Raise(OtherException)}

\* a tool is called: get_auth_service(), then it awaits get_client
ToolCall(args, svc_out) ==
    /\ tool_pc = "idle"
    /\ tool_args' = args
    /\ IF svc_out = "ok"
       THEN tool_pc' = "get_client" /\ tool_out' = NoResult /\ tool_seen' = NoError
       ELSE /\ tool_pc' = "done"
            /\ tool_seen' = ValidationError("roles")
            /\ tool_out' = tool_handler(args, ValidationError("roles"))
    /\ UNCHANGED <<brokerVars, roleVars, modelVars, slackVars>>

\* get_client returns or raises; the tool goes on to await the service call
\* (get_aws_regions for a service other than ec2 reads the regions from the
\* local session and finishes)
ToolGetClientReturn(out) ==
    /\ tool_pc = "get_client"
    /\ out \in GetClientOutcomes(tool_args)
    /\ tool_seen' = out.error
    /\ IF ~out.ok
       THEN tool_pc' = "done" /\ tool_out' = tool_handler(tool_args, out.error)
       ELSE IF tool_args.tool = "get_aws_regions" /\ tool_args.service # "ec2"
            THEN tool_pc' = "done" /\ tool_out' = tool_success(tool_args)
            ELSE tool_pc' = "service" /\ tool_out' = NoResult
    /\ UNCHANGED <<tool_args, brokerVars, roleVars, modelVars, slackVars>>

\* the service call returns or raises, and the response is read
ToolServiceReturn(out) ==
    /\ tool_pc = "service"
    /\ tool_pc' = "done"
    /\ tool_seen' = out.error
    /\ tool_out' = IF out.ok THEN tool_success(tool_args)
                   ELSE tool_handler(tool_args, out.error)
    /\ UNCHANGED <<tool_args, brokerVars, roleVars, modelVars, slackVars>>

\* the task running the tool is cancelled while it is suspended
ToolCancel ==
    /\ tool_pc \in {"get_client", "service"}
    /\ tool_pc' = "done"
    /\ tool_seen' = CancelledError
    /\ tool_out' = tool_handler(tool_args, CancelledError)
    /\ UNCHANGED <<tool_args, brokerVars, roleVars, modelVars, slackVars>>

InitTool == ExtIdle /\ Unconstructed

NextTool ==
    \/ \E args \in ToolCalls, svc_out \in AuthServiceOutcomes : ToolCall(args, svc_out)
    \/ \E out \in UNION {GetClientOutcomes(args) : args \in ToolCalls} :
          ToolGetClientReturn(out)
    \/ \E out \in ServiceOutcomes : ToolServiceReturn(out)
    \/ ToolCancel

SpecTool == InitTool /\ [][NextTool]_vars

\* ------------------------------------------------- choosing the LLM model
\* utils.get_configured_model.  The imports of LiteLlm and boto3 and the
\* check of the AWS credentials are collaborators that answer or fail.
Whitespace == {" ", "\t", "\n"}

\* str.strip(): the text without its leading and trailing whitespace
RECURSIVE lstrip(_)
lstrip(text) ==
    IF text # <<>> /\ Head(text) \in Whitespace THEN lstrip(Tail(text)) ELSE text
RECURSIVE rstrip(_)
rstrip(text) ==
    IF text # <<>> /\ text[Len(text)] \in Whitespace
    THEN rstrip(SubSeq(text, 1, Len(text) - 1)) ELSE text
strip(text) == rstrip(lstrip(text))

\* `key and key.strip()`
key_given(x) == x.type = "str" /\ x.v # <<>> /\ strip(x.v) # <<>>

\* os.getenv(name, default) of a variable holding x
getenv(x, default) == IF x.type = "NoneType" THEN PyStr(default) ELSE x

GeminiDefault == <<"g", "e", "m", "i", "n", "i", "-", "2", ".", "0">>   \* utils.py:187
ClaudeDefault == <<"c", "l", "a", "u", "d", "e", "-", "3", "-", "5">>   \* utils.py:203
LiteLlm(model) == [type |-> "LiteLlm", v |-> model]
ModelConfigurationError(about) ==
    Exc("ModelConfigurationError", <<>>, NoneVal, NoneVal, about)

\* the order of the `if`s with Anthropic looked at before Google
provider_of_anthropic_first(env) ==
    IF key_given(env.ANTHROPIC_API_KEY) THEN "anthropic"
    ELSE IF key_given(env.GOOGLE_API_KEY) THEN "google"
    ELSE IF key_given(env.BEDROCK_INFERENCE_PROFILE) THEN "bedrock"
    ELSE "none"

\* the order of the `if`s: Google, then Anthropic, then Bedrock
provider_of(env) ==
    IF key_given(env.GOOGLE_API_KEY) THEN "google"
    ELSE IF key_given(env.ANTHROPIC_API_KEY) THEN "anthropic"
    ELSE IF key_given(env.BEDROCK_INFERENCE_PROFILE) THEN "bedrock"
    ELSE "none"

\* get_configured_model() in the environment env, when the import of
\* LiteLlm, the import of boto3 and the credential check answer as given
get_configured_model(env, litellm, boto3, sts) ==
    CASE provider_of(env) = "google" ->
           Ok(getenv(env.GOOGLE_AI_MODEL, GeminiDefault))
      [] provider_of(env) = "anthropic" ->
           IF litellm # "ok" THEN Raise(ModelConfigurationError("LiteLlm"))
           ELSE Ok(LiteLlm(getenv(env.ANTHROPIC_MODEL, ClaudeDefault).v))
      [] provider_of(env) = "bedrock" ->
           IF boto3 # "ok" THEN Raise(ModelConfigurationError("boto3"))
           ELSE IF sts # "ok" THEN Raise(ModelConfigurationError("credentials"))
           ELSE IF litellm # "ok" THEN Raise(ModelConfigurationError("LiteLlm"))
           ELSE Ok(LiteLlm(env.BEDROCK_INFERENCE_PROFILE.v))
      [] provider_of(env) = "none" ->
           Raise(ModelConfigurationError("No AI provider API key found"))

\* values of a provider key: unset, empty, blank, given, given with blanks
KeyTexts == {PyNone, PyStr(<<>>), PyStr(<<" ", "\t", " ">>), PyStr(<<"k">>),
             PyStr(<<" ", "k", "\n">>)}
ModelEnvirons ==
    [GOOGLE_API_KEY : KeyTexts,
     GOOGLE_AI_MODEL : {PyNone, PyStr(<<"p", "r", "o">>)},
     ANTHROPIC_API_KEY : KeyTexts,
     ANTHROPIC_MODEL : {PyNone, PyStr(<<"o", "p", "u", "s">>)},
     BEDROCK_INFERENCE_PROFILE : KeyTexts]
ImportOutcomes == {"ok", "ImportError"}
CredentialCheckOutcomes == {"ok", "Exception"}

InitModel ==
    /\ model_env \in ModelEnvirons
    /\ model_provider = "none"
    /\ model_out = NoResult
    /\ RoleIdle
    /\ ToolIdle
    /\ SlackIdle
    /\ whitelist = WhitelistOff
    /\ Unconstructed

\* get_configured_model() has returned or raised
Configured == model_out.ok \/ model_out.error # NoError

GetConfiguredModel(litellm, boto3, sts) ==
    /\ ~Configured
    /\ model_provider' = provider_of(model_env)
    /\ model_out' = get_configured_model(model_env, litellm, boto3, sts)
    /\ UNCHANGED <<model_env, brokerVars, roleVars, toolVars, slackVars>>

NextModel ==
    \E litellm \in ImportOutcomes, boto3 \in ImportOutcomes,
       sts \in CredentialCheckOutcomes : GetConfiguredModel(litellm, boto3, sts)

SpecModel == InitModel /\ [][NextModel]_vars

\* ---------------------------------------------------------- the Slack bot
\* slack_bot/main.py.  Slack and the agent API are collaborators: an
\* acknowledgment is sent or not, an API session is created or not.
MaxSlackTicks == 2     \* the clock of the Slack bot advances at most this many times
MaxSessions == 2       \* at most this many ConversationSession objects are created
SESSION_TIMEOUT_MINUTES == 1     \* the session timeout, in units of the clock

\* is_user_whitelisted letting every user in
is_user_whitelisted_open(user_id) == TRUE

\* is_user_whitelisted (lines 44-65)
is_user_whitelisted(user_id) ==
    IF ~whitelist.enabled THEN TRUE ELSE user_id \in whitelist.users

\* the keys of SessionManager: f"{channel}_{user}_{thread_ts or 'main'}" and
\* f"{channel}_{thread_ts}"
session_key(channel, user, thread_ts) ==
    <<channel, "_", user, "_", IF Truthy(thread_ts) THEN thread_ts ELSE "main">>
thread_key(channel, thread_ts) == <<channel, "_", thread_ts>>

\* ConversationSession.__init__ at time t (lines 96-107)
ConversationSession(channel, user, thread_ts, t) ==
    [channel |-> channel, user |-> user, current_user |-> user,
     thread_ts |-> thread_ts,
     session_id |-> <<"s_", channel, "_",
                      IF Truthy(thread_ts) THEN thread_ts ELSE ToString(t)>>,
     last_activity |-> t, user_id |-> <<"u_", user>>]

\* ConversationSession.is_expired at time t (lines 111-116)
is_expired(session, t) == t - session.last_activity > SESSION_TIMEOUT_MINUTES

\* a dict with the entry k set to v, and without the keys ks
dict_set(d, k, v) == [x \in DOMAIN d \cup {k} |-> IF x = k THEN v ELSE d[x]]
dict_del(d, ks) == [x \in DOMAIN d \ ks |-> d[x]]

\* the state of the SessionManager and the objects its sessions refer to
Manager == [sessions |-> sessions, map |-> thread_session_map, heap |-> heap]

\* SessionManager._cleanup_expired_sessions (lines 198-211)
cleanup_expired_sessions(m, t) ==
    LET expired_keys == {k \in DOMAIN m.sessions : is_expired(m.heap[m.sessions[k]], t)}
        thread_keys == {thread_key(m.heap[m.sessions[k]].channel,
                                   m.heap[m.sessions[k]].thread_ts) :
                           k \in {e \in expired_keys :
                                     Truthy(m.heap[m.sessions[e]].thread_ts)}}
    IN  [m EXCEPT !.map = dict_del(m.map, thread_keys),
                  !.sessions = dict_del(m.sessions, expired_keys)]

\* SessionManager.get_session (lines 150-196): the manager afterwards and the
\* session object that is returned
get_session(m0, channel, user, thread_ts, t) ==
    LET m == cleanup_expired_sessions(m0, t)
        tk == thread_key(channel, thread_ts)
        key == session_key(channel, user, thread_ts)
        touch(o) == [m.heap EXCEPT ![o].last_activity = t]
    IN  IF /\ Truthy(thread_ts)
           /\ tk \in DOMAIN m.map
           /\ m.map[tk] \in DOMAIN m.sessions
           /\ ~is_expired(m.heap[m.sessions[m.map[tk]]], t)
        THEN LET o == m.sessions[m.map[tk]]
             IN  [m |-> [m EXCEPT !.heap = [touch(o) EXCEPT ![o].current_user = user]],
                  session |-> o]
        ELSE IF key \notin DOMAIN m.sessions \/ is_expired(m.heap[m.sessions[key]], t)
        THEN LET o == Len(m.heap) + 1
             IN  [m |-> [sessions |-> dict_set(m.sessions, key, o),
                         map |-> IF Truthy(thread_ts)
                                 THEN dict_set(m.map, tk, key) ELSE m.map,
                         heap |-> Append(m.heap,
                                         ConversationSession(channel, user, thread_ts, t))],
                  session |-> o]
        ELSE [m |-> [m EXCEPT !.heap = touch(m.sessions[key])],
              session |-> m.sessions[key]]

\* SessionManager.update_session_thread (lines 126-148) on the object o
update_session_thread(m, o, new_thread_ts, t) ==
    LET session == m.heap[o]
        old_key == session_key(session.channel, session.user, session.thread_ts)
        new_key == session_key(session.channel, session.user, new_thread_ts)
        moved == IF old_key \in DOMAIN m.sessions
                 THEN dict_del(dict_set(m.sessions, new_key, m.sessions[old_key]),
                               {old_key})
                 ELSE m.sessions
    IN  [sessions |-> moved,
         map |-> dict_set(m.map, thread_key(session.channel, new_thread_ts), new_key),
         heap |-> [m.heap EXCEPT ![o].thread_ts = new_thread_ts,
                                 ![o].session_id = <<"s_", session.channel, "_",
                                                     new_thread_ts>>,
                                 ![o].last_activity = t]]

\* the events of the channel: a top-level message that mentions the bot is
\* delivered as an app_mention and as a message event, with its ts and
\* without thread_ts; a reply in a thread carries the thread's ts
Events ==
    [type : {"app_mention", "message"}, user : SlackUsers, ts : Threads,
     reply : BOOLEAN]

\* Slack can deliver the event: a top-level message has one author and
\* reaches a handler once, a reply needs its thread; users reply as often as
\* they like
Deliverable(e) ==
    IF e.reply THEN posted[e.ts] # NoneVal
    ELSE e \notin seen /\ posted[e.ts] \in {NoneVal, e.user}

\* the handler has received the event: the model remembers the top-level
\* messages and the events that were turned down
Delivered(e) ==
    /\ seen' = IF e.reply /\ is_user_whitelisted(e.user) THEN seen ELSE seen \cup {e}
    /\ posted' = IF e.reply THEN posted ELSE [posted EXCEPT ![e.ts] = e.user]

\* asyncio.create_task(process_message_with_api(...)): the task waits for
\* its acknowledgment message to be sent
create_task(user, thread_ts, original_message_ts) ==
    \E t \in SlackTasks :
        /\ tasks[t].pc = "free"
        /\ \A u \in SlackTasks : u < t => tasks[u].pc # "free"
        /\ tasks' = [tasks EXCEPT ![t] =
                        [pc |-> "ack", user |-> user, thread_ts |-> thread_ts,
                         original_message_ts |-> original_message_ts,
                         session |-> 0]]

\* handle_app_mention_events (lines 787-843):
\* thread_ts = event.get("thread_ts", event.get("ts"))
HandleAppMention(e) ==
    /\ e.type = "app_mention"
    /\ Deliverable(e)
    /\ Delivered(e)
    /\ IF ~is_user_whitelisted(e.user)
       THEN UNCHANGED tasks
       ELSE create_task(e.user, e.ts, NoneVal)
    /\ UNCHANGED <<whitelist, slack_now, sessions, thread_session_map, heap,
                   api_calls, brokerVars, roleVars, toolVars, modelVars>>

\* handle_message_events (lines 846-937) for a message that mentions the
\* bot: thread_ts = event.get("thread_ts"), and
\* original_message_ts = event.get("ts") if not thread_ts else None
HandleMessage(e) ==
    /\ e.type = "message"
    /\ Deliverable(e)
    /\ Delivered(e)
    /\ IF ~is_user_whitelisted(e.user)
       THEN UNCHANGED tasks
       ELSE IF e.reply THEN create_task(e.user, e.ts, NoneVal)
            ELSE create_task(e.user, NoneVal, e.ts)
    /\ UNCHANGED <<whitelist, slack_now, sessions, thread_session_map, heap,
                   api_calls, brokerVars, roleVars, toolVars, modelVars>>

\* process_message_with_api from the return of send_acknowledgment_message
\* to the await of create_api_session (lines 615-713): the session is looked
\* up, and moved to the new thread when the task has created one
TaskSession(t, ack_sent) ==
    /\ tasks[t].pc = "ack"
    /\ Len(heap) < MaxSessions
    /\ LET task == tasks[t]
           got == IF Truthy(task.thread_ts)
                  THEN get_session(Manager, Channel, task.user, task.thread_ts, slack_now)
                  ELSE get_session(Manager, Channel, task.user, NoneVal, slack_now)
           m == IF ~Truthy(task.thread_ts) /\ ack_sent
                THEN update_session_thread(got.m, got.session,
                                           task.original_message_ts, slack_now)
                ELSE got.m
       IN  /\ sessions' = m.sessions
           /\ thread_session_map' = m.map
           /\ heap' = m.heap
           /\ tasks' = [tasks EXCEPT ![t].pc = "api", ![t].session = got.session]
    /\ UNCHANGED <<whitelist, slack_now, posted, seen, api_calls,
                   brokerVars, roleVars, toolVars, modelVars>>

\* the request of create_api_session and of send_message_to_api, of which
\* the model keeps the endpoint and the user it is made for
api_request(endpoint, session) ==
    [endpoint |-> endpoint, user_id |-> session.user_id]

\* create_api_session has answered (lines 709-731); when the session was
\* created the task posts the message to /run (line 771) and ends
TaskApi(t, session_created) ==
    /\ tasks[t].pc = "api"
    /\ api_calls' = api_calls
          \cup {api_request("sessions", heap[tasks[t].session])}
          \cup IF session_created
               THEN {api_request("run", heap[tasks[t].session])} ELSE {}
    /\ tasks' = [tasks EXCEPT ![t] = NoTask]
    /\ UNCHANGED <<whitelist, slack_now, sessions, thread_session_map, heap,
                   posted, seen, brokerVars, roleVars, toolVars, modelVars>>

\* time passes
SlackTick ==
    /\ slack_now < MaxSlackTicks
    /\ slack_now' = slack_now + 1
    /\ UNCHANGED <<whitelist, sessions, thread_session_map, heap, tasks, posted,
                   seen, api_calls, brokerVars, roleVars, toolVars, modelVars>>

\* WHITELIST_ENABLED and WHITELIST_USERS as the environment sets them
Whitelists ==
    {WhitelistOff, [enabled |-> TRUE, users |-> {"U1"}]}

InitSlack ==
    /\ whitelist \in Whitelists
    /\ SlackIdle
    /\ RoleIdle
    /\ ToolIdle
    /\ ModelIdle
    /\ Unconstructed

NextSlack ==
    \/ \E e \in Events : HandleAppMention(e)
    \/ \E e \in Events : HandleMessage(e)
    \/ \E t \in SlackTasks, ack_sent \in BOOLEAN : TaskSession(t, ack_sent)
    \/ \E t \in SlackTasks, session_created \in BOOLEAN : TaskApi(t, session_created)
    \/ SlackTick

SpecSlack == InitSlack /\ [][NextSlack]_vars

\* ------------------------------------------------------------ properties
Count(seq, x) == Cardinality({i \in DOMAIN seq : seq[i] = x})
Done(p, op) == pc[p] = "done" /\ call[p].op = op
Registered(role_name) == role_name \in DOMAIN config.roles

\* the instant at which the credentials of entry r of `cache` expire: they
\* were issued, for duration_seconds, at the instant the entry was stored
ExpiresAt(cache, r) == cache[r].cache_time + config.roles[r].duration_seconds

\* entry r of `cache` is within the TTL and outside the expiry buffer at t
EntryValid(cache, r, t) ==
    /\ config.enable_caching
    /\ r \in DOMAIN cache
    /\ t - cache[r].cache_time <= config.cache_ttl_seconds
    /\ ExpiresAt(cache, r) - t >= 300

\* the expiry, read back from its ISO string, of a credential set
ParsedExpiry(credentials) == fromisoformat(credentials.expiration).timestamp

C2_HandleFresh ==
    \A p \in Callers :
        (Done(p, "get_client") /\ Truthy(call[p].role_name)
            /\ Registered(call[p].role_name) /\ result[p].ok)
        => /\ result[p].value.kind = "client"
           /\ result[p].value.built_with # NoKeys
           /\ ParsedExpiry(result[p].value.built_with) - now >= 300

\* a handle served from the cache whose credentials have exactly 300
\* seconds left
C2_Witness ==
    \E p \in Callers :
        /\ Done(p, "get_client") /\ Registered(call[p].role_name)
        /\ result[p].ok /\ obs[p].valid
        /\ ParsedExpiry(result[p].value.built_with) - now = 300

\* C3: with caching enabled, a get_client for a registered role whose entry
\* is valid calls no exchange, leaves the cache alone and builds the handle
\* with the cached credentials; the get_client that found no valid entry and
\* returned a handle called the exchange exactly once and cached what it got.
C3_OneExchange ==
    \A p \in Callers :
        (Done(p, "get_client") /\ config.enable_caching
            /\ Truthy(call[p].role_name) /\ Registered(call[p].role_name))
        => /\ EntryValid(obs[p].cache0, call[p].role_name, obs[p].now0)
              => /\ Count(trace[p], "assume_role") = 0
                 /\ credential_cache = obs[p].cache0
                 /\ result[p].ok =>
                       result[p].value.built_with =
                           obs[p].cache0[call[p].role_name].credentials
           /\ (~EntryValid(obs[p].cache0, call[p].role_name, obs[p].now0)
                  /\ result[p].ok)
              => /\ Count(trace[p], "assume_role") = 1
                 /\ call[p].role_name \in DOMAIN credential_cache
                 /\ credential_cache[call[p].role_name].credentials =
                        result[p].value.built_with
                 /\ result[p].value.built_with.access_key_id =
                        <<"AccessKeyId", call[p].serial>>

\* a second get_client served, without an exchange, from the entry that an
\* earlier get_client cached
C3_Witness ==
    \E p \in Callers :
        /\ Done(p, "get_client") /\ config.enable_caching /\ result[p].ok
        /\ EntryValid(obs[p].cache0, call[p].role_name, obs[p].now0)
        /\ obs[p].now0 > obs[p].cache0[call[p].role_name].cache_time
        /\ Count(trace[p], "assume_role") = 0
        /\ exchange_count = 1

\* the get_client of caller p was called when entry r was older than the TTL
TTLPassed(p) ==
    /\ Done(p, "get_client") /\ config.enable_caching
    /\ Truthy(call[p].role_name)
    /\ call[p].role_name \in DOMAIN obs[p].cache0
    /\ obs[p].now0 - obs[p].cache0[call[p].role_name].cache_time
           > config.cache_ttl_seconds

\* C4 as stated: once the clock is past t0 + cache_ttl_seconds, the next
\* get_client for the role performs a new exchange and replaces the entry.
C4_Original ==
    \A p \in Callers :
        TTLPassed(p)
        => /\ Count(trace[p], "assume_role") = 1
           /\ call[p].role_name \in DOMAIN credential_cache
           /\ credential_cache[call[p].role_name].credentials.access_key_id =
                  <<"AccessKeyId", call[p].serial>>

\* C4 amended: once the clock is past t0 + cache_ttl_seconds, the next
\* get_client for the role performs a new exchange, even when the cached
\* credentials are more than the buffer away from expiry; it replaces the
\* entry when that exchange succeeds, and otherwise raises and leaves the
\* old entry in place.
C4_RefreshAfterTTL ==
    \A p \in Callers :
        TTLPassed(p)
        => /\ Count(trace[p], "assume_role") = 1
           /\ obs[p].exchanged # "none"
           /\ obs[p].exchanged = "ok"
              => /\ call[p].role_name \in DOMAIN credential_cache
                 /\ credential_cache[call[p].role_name].credentials.access_key_id
                        = <<"AccessKeyId", call[p].serial>>
                 /\ credential_cache[call[p].role_name].cache_time = now
           /\ obs[p].exchanged # "ok"
              => /\ ~result[p].ok
                 /\ credential_cache = obs[p].cache0

\* the TTL had passed while the old credentials were still more than 300
\* seconds from expiry, and the entry has been replaced
C4_Witness ==
    \E p \in Callers :
        /\ TTLPassed(p)
        /\ ExpiresAt(obs[p].cache0, call[p].role_name) - now > 300
        /\ obs[p].exchanged = "ok" /\ result[p].ok
        /\ credential_cache[call[p].role_name] # obs[p].cache0[call[p].role_name]

\* C5: with caching disabled, a get_client for a registered role whose
\* exchange succeeds (and whose client factory does not fail) has called the
\* exchange once and returns a handle built with the credentials of that
\* exchange.
C5_NoCachingRefresh ==
    \A p \in Callers :
        (Done(p, "get_client") /\ ~config.enable_caching
            /\ Truthy(call[p].role_name) /\ Registered(call[p].role_name)
            /\ obs[p].exchanged = "ok"
            /\ obs[p].fact \notin FactoryOutcomes \ {"ok"})
        => /\ Count(trace[p], "assume_role") = 1
           /\ result[p].ok
           /\ result[p].value.kind = "client"
           /\ result[p].value.aws_access_key_id = <<"AccessKeyId", call[p].serial>>

\* C6: get_client with a role_name that is not registered raises
\* RoleNotFound, calls no collaborator (no exchange, no STS client, no
\* client factory) and leaves the cache unchanged.
C6_RoleNotFound ==
    \A p \in Callers :
        (Done(p, "get_client") /\ Truthy(call[p].role_name)
            /\ ~Registered(call[p].role_name))
        => /\ result[p] = Raise(RoleNotFoundError(call[p].role_name))
           /\ trace[p] = <<>>
           /\ obs[p].sts_res = "none" /\ obs[p].exchanged = "none"
           /\ obs[p].fact = "none"
           /\ credential_cache = obs[p].cache0

\* RoleNotFound raised while the cache holds an entry and no STS client has
\* to be created any more
C6_Witness ==
    \E p \in Callers :
        /\ Done(p, "get_client") /\ call[p].role_name = "ghost"
        /\ result[p].error.type = "RoleNotFoundError"
        /\ credential_cache # EmptyCache

\* C7: when the exchange rejects the request with a provider code, get_client
\* raises AssumeRoleFailed carrying that code and the role identifier of the
\* requested role.
C7_AssumeRoleFailed ==
    \A p \in Callers :
        (Done(p, "get_client") /\ obs[p].exchanged \in ProviderCodes)
        => /\ ~result[p].ok
           /\ result[p].error.type = "AssumeRoleError"
           /\ result[p].error.aws_error_code = obs[p].exchanged
           /\ result[p].error.role_arn = config.roles[call[p].role_name].role_arn

\* the exchange answered AccessDenied to a get_client
C7_Witness ==
    \E p \in Callers :
        /\ Done(p, "get_client") /\ obs[p].exchanged = "AccessDenied"
        /\ result[p].error.type = "AssumeRoleError"

\* C8: get_client without role_name, when the ambient identity has no
\* credentials, raises AuthenticationError and not AssumeRoleFailed.
C8_AmbientMissing ==
    \A p \in Callers :
        (Done(p, "get_client") /\ ~Truthy(call[p].role_name)
            /\ obs[p].fact = "NoCredentialsError")
        => /\ ~result[p].ok
           /\ result[p].error.type = "AuthenticationError"
           /\ result[p].error.type # "AssumeRoleError"

\* get_client(role_name=None) met NoCredentialsError
C8_Witness ==
    \E p \in Callers :
        /\ Done(p, "get_client") /\ call[p].role_name = NoneVal
        /\ obs[p].fact = "NoCredentialsError" /\ ~result[p].ok

BrokerErrorTypes == {"RoleNotFoundError", "AssumeRoleError", "ClientCreationError",
                     "AuthenticationError", "ConfigurationError", "AWSAuthError"}

\* C9: every failure that get_client or refresh raises is one of the broker's
\* typed errors, and neither returns normally when a collaborator it called
\* has failed.
C9_TypedErrors ==
    \A p \in Callers :
        (Done(p, "get_client") \/ Done(p, "refresh"))
        => /\ ~result[p].ok => result[p].error.type \in BrokerErrorTypes
           /\ result[p].ok
              => /\ obs[p].sts_res \in {"none", "ok"}
                 /\ obs[p].exchanged \in {"none", "ok"}
                 /\ obs[p].fact \in {"none", "ok"}
                 /\ result[p].error = NoError

\* a collaborator's native error reached get_client, and one reached refresh
C9_Witness ==
    \E p \in Callers :
        /\ Done(p, "get_client") \/ Done(p, "refresh")
        /\ ~result[p].ok
        /\ \/ obs[p].fact = "Exception"
           \/ obs[p].exchanged = "Exception"
           \/ obs[p].sts_res = "Exception"

\* C10: test_credentials raises the typed error that get_client / the identity
\* call raised: RoleNotFound for an unregistered role, AssumeRoleFailed with
\* role identifier and code for a rejected exchange, AuthenticationError for a
\* missing ambient identity; on success it returns account, user_id, arn and
\* the role_name it was given.
C10_SameTypedError ==
    \A p \in Callers :
        Done(p, "test_credentials")
        => /\ (Truthy(call[p].role_name) /\ ~Registered(call[p].role_name))
              => result[p] = Raise(RoleNotFoundError(call[p].role_name))
           /\ obs[p].exchanged \in ProviderCodes
              => /\ result[p].error.type = "AssumeRoleError"
                 /\ result[p].error.aws_error_code = obs[p].exchanged
                 /\ result[p].error.role_arn =
                        config.roles[call[p].role_name].role_arn
           /\ (~Truthy(call[p].role_name) /\ obs[p].fact = "NoCredentialsError")
              => result[p].error.type = "AuthenticationError"
           /\ result[p].ok
              => /\ result[p].value.kind = "identity"
                 /\ result[p].value.role_name = call[p].role_name

\* C11: clear_cache(r) for a role name r removes the entry of r and no other
\* (nothing changes when r has no entry); clear_cache() without a role leaves
\* the cache empty; neither form calls a collaborator or raises.
C11_ClearCache ==
    \A p \in Callers :
        Done(p, "clear_cache")
        => /\ result[p].ok
           /\ trace[p] = <<>>
           /\ Truthy(call[p].role_name)
              => /\ DOMAIN credential_cache =
                        DOMAIN obs[p].cache0 \ {call[p].role_name}
                 /\ \A r \in DOMAIN credential_cache :
                        credential_cache[r] = obs[p].cache0[r]
                 /\ call[p].role_name \notin DOMAIN obs[p].cache0
                        => credential_cache = obs[p].cache0
           /\ call[p].role_name = NoneVal
              => DOMAIN credential_cache = {}

\* clear_cache of one of two cached roles: the other entry is still there
C11_Witness ==
    \E p \in Callers :
        /\ Done(p, "clear_cache")
        /\ call[p].role_name \in DOMAIN obs[p].cache0
        /\ Cardinality(DOMAIN obs[p].cache0) = 2
        /\ Cardinality(DOMAIN credential_cache) = 1

\* get_client of caller p was called, with caching enabled, for a registered
\* role that had no cache entry
NoEntryCall(p) ==
    /\ Done(p, "get_client") /\ config.enable_caching
    /\ Truthy(call[p].role_name) /\ Registered(call[p].role_name)
    /\ call[p].role_name \notin DOMAIN obs[p].cache0

\* C12: for a registered role with caching enabled and no cached entry, a
\* get_client whose collaborators answer returns a handle; the get_client
\* that returns a handle has called the exchange exactly once, has left a
\* cache entry holding the credentials of that exchange, and has built the
\* handle with the access key, secret key and session token of those
\* credentials and with the region override when given, else default_region.
C12_FreshHandle ==
    \A p \in Callers :
        NoEntryCall(p)
        => /\ (obs[p].sts_res \in {"none", "ok"} /\ obs[p].exchanged = "ok"
                  /\ obs[p].fact = "ok") => result[p].ok
           /\ result[p].ok
              => LET r == call[p].role_name
                     issued == AWSCredentials(call[p].serial,
                                   now + config.roles[r].duration_seconds)
                     handle == result[p].value
                 IN  /\ Count(trace[p], "assume_role") = 1
                     /\ Count(trace[p], "boto3_client") = 1
                     /\ r \in DOMAIN credential_cache
                     /\ credential_cache[r].credentials = issued
                     /\ \A q \in DOMAIN credential_cache \ {r} :
                            /\ q \in DOMAIN obs[p].cache0
                            /\ credential_cache[q] = obs[p].cache0[q]
                     /\ handle.kind = "client"
                     /\ handle.aws_access_key_id = issued.access_key_id
                     /\ handle.aws_secret_access_key = issued.secret_access_key
                     /\ handle.aws_session_token = issued.session_token
                     /\ handle.profile = NoneVal
                     /\ handle.region_name =
                            IF call[p].region = NoneVal
                            THEN config.default_region ELSE call[p].region

\* a first get_client for a role, with a region override, returned a handle
C12_Witness ==
    \E p \in Callers :
        /\ NoEntryCall(p) /\ result[p].ok
        /\ call[p].region = "eu-west-1"
        /\ result[p].value.region_name = "eu-west-1"

\* C13: a get_client called without a role_name calls no exchange and no STS
\* client, leaves the cache as it was, and what it returns does not depend
\* on the cache: a handle without explicit keys, built from the configured
\* default profile when there is one and from the environment identity
\* otherwise, for the region override when given, else default_region.
C13_AmbientClient ==
    \A p \in Callers :
        (Done(p, "get_client") /\ ~Truthy(call[p].role_name))
        => /\ trace[p] = <<"boto3_client">>
           /\ obs[p].exchanged = "none" /\ obs[p].sts_res = "none"
           /\ call[p].serial = 0
           /\ credential_cache = obs[p].cache0
           /\ result[p].ok <=> obs[p].fact = "ok"
           /\ result[p].ok
              => result[p].value =
                    [kind |-> "client", service |-> call[p].service,
                     aws_access_key_id |-> <<>>, aws_secret_access_key |-> <<>>,
                     aws_session_token |-> <<>>,
                     region_name |-> IF call[p].region = NoneVal
                                     THEN config.default_region
                                     ELSE call[p].region,
                     profile |-> config.default_profile, built_with |-> NoKeys]

\* a get_client without role_name, under a configured default profile, while
\* the cache holds a valid entry
C13_Witness ==
    \E p \in Callers :
        /\ Done(p, "get_client") /\ call[p].role_name = NoneVal
        /\ result[p].ok /\ result[p].value.profile = "sre"
        /\ \E r \in DOMAIN credential_cache :
              credentials_valid(config, credential_cache, r, now)

\* the exchange that get_client / refresh of caller p awaited has failed
ExchangeFailed(p) ==
    /\ Done(p, "get_client") \/ Done(p, "refresh")
    /\ obs[p].exchanged \notin {"none", "ok"}

\* C14: when the exchange fails during a refresh, called directly or inside
\* get_client, that call has invoked the exchange exactly once, the cache is
\* as the call found it, and the call raises the failure the exchange was
\* mapped to: AssumeRoleError with the role's ARN and the provider's code,
\* AWSAuthError for any other failure.
C14_NoRetry ==
    \A p \in Callers :
        ExchangeFailed(p)
        => /\ Count(trace[p], "assume_role") = 1
           /\ Count(trace[p], "boto3_client") = 0
           /\ credential_cache = obs[p].cache0
           /\ ~result[p].ok
           /\ result[p].error =
                 IF obs[p].exchanged \in ProviderCodes
                 THEN AssumeRoleError(config.roles[call[p].role_name].role_arn,
                                      obs[p].exchanged)
                 ELSE AWSAuthError(<<>>)

\* a failed exchange while another exchange could still have been issued
C14_Witness ==
    \E p \in Callers :
        /\ ExchangeFailed(p) /\ Done(p, "get_client")
        /\ obs[p].exchanged = "Throttling"
        /\ exchange_count < MaxExchanges

\* C19: cache_info() reports exactly the roles that have a cache entry, with
\* the instants the entry was cached and expires; the `valid` field of each
\* is the validity check evaluated at the moment of the call, true exactly
\* when the entry is within the TTL and outside the expiry buffer at that
\* moment; the call leaves the cache unchanged.
C19_CacheInfo ==
    \A p \in Callers :
        Done(p, "cache_info")
        => /\ result[p].ok
           /\ credential_cache = obs[p].cache0
           /\ DOMAIN result[p].value.info = DOMAIN credential_cache
           /\ \A r \in DOMAIN credential_cache :
                 LET e == result[p].value.info[r]
                 IN  /\ e.valid = credentials_valid(config, credential_cache, r, now)
                     /\ e.valid = EntryValid(credential_cache, r, now)
                     /\ fromisoformat(e.cached_at).timestamp =
                            credential_cache[r].cache_time
                     /\ fromisoformat(e.expires_at).timestamp =
                            ExpiresAt(credential_cache, r)

\* cache_info called when one entry is still valid and another no longer is
C19_Witness ==
    \E p \in Callers :
        /\ Done(p, "cache_info")
        /\ \E r, q \in DOMAIN credential_cache :
              /\ result[p].value.info[r].valid
              /\ ~result[p].value.info[q].valid
              /\ now > credential_cache[q].cache_time

\* in this step the refresh of caller p succeeded and set the entry of its
\* role, and of no other role
RefreshSets(p) ==
    /\ pc[p] = "assume_role" /\ pc'[p] # "assume_role"
    /\ obs'[p].exchanged = "ok"
    /\ DOMAIN credential_cache' = DOMAIN credential_cache \cup {call[p].role_name}
    /\ credential_cache'[call[p].role_name].cache_time = now
    /\ \A q \in DOMAIN credential_cache \ {call[p].role_name} :
          credential_cache'[q] = credential_cache[q]

\* in this step caller p called clear_cache, which only removed entries
ClearRemoves(p) ==
    /\ pc[p] = "idle" /\ pc'[p] = "done" /\ call'[p].op = "clear_cache"
    /\ DOMAIN credential_cache' \subseteq DOMAIN credential_cache
    /\ \A q \in DOMAIN credential_cache' :
          credential_cache'[q] = credential_cache[q]

\* C15: every step that changes the cache mapping is either the successful
\* refresh of a role r, setting the entry of r and of no other role, or a
\* clear_cache, removing entries; so a failed refresh, a get_client served
\* from a valid entry, a get_client without role_name, the validity check
\* and cache_info leave the whole mapping unchanged.
C15_CacheFrame ==
    [][credential_cache' # credential_cache
           => \E p \in Callers : RefreshSets(p) \/ ClearRemoves(p)]_vars

\* a successful refresh has set the entry of its role while the entry of
\* another role stayed in the cache
C15_Witness ==
    \E p \in Callers :
        /\ Done(p, "get_client") /\ obs[p].exchanged = "ok"
        /\ call[p].role_name \in DOMAIN credential_cache
        /\ credential_cache # obs[p].cache0
        /\ \E q \in DOMAIN obs[p].cache0 \ {call[p].role_name} :
              credential_cache[q] = obs[p].cache0[q]

\* C18: every exchange call for a role carries a session label that no
\* earlier exchange call for the same role carried; the calls compared here
\* are those issued within one second of the clock.
C18_DistinctLabels ==
    \A i, j \in DOMAIN session_log :
        (i < j /\ session_log[i].role_name = session_log[j].role_name)
        => session_log[i].session_name # session_log[j].session_name

\* the task of caller p was cancelled while its exchange was in flight
Cancelled(p) == pc[p] = "done" /\ result[p].error = CancelledError

\* the get_client of caller p, with caching enabled, for a registered role
\* found the entry absent or invalid and ran to its end
Racer(p) ==
    /\ Done(p, "get_client") /\ ~Cancelled(p)
    /\ config.enable_caching /\ Registered(call[p].role_name)
    /\ ~obs[p].valid

\* the credentials that the exchange of caller p returned
Issued(p) ==
    AWSCredentials(call[p].serial,
                   obs[p].now1 + config.roles[call[p].role_name].duration_seconds)

\* the cache entry that the refresh of caller p wrote
Written(p) == [credentials |-> Issued(p), cache_time |-> obs[p].now1]

\* C16: with caching enabled, of the get_client calls for one registered role
\* that run concurrently and find the entry absent or invalid: a call fails
\* only when one of its own collaborators fails; a call whose exchange and
\* client factory succeed returns a handle built from the credentials of its
\* own exchange, which are still at least 300 seconds from expiry at its
\* return; the cache then holds one entry for the role, written no earlier
\* than that call's refresh, and when the racing calls have all finished it
\* is the entry of the refresh that completed last.
C16_ConcurrentRefresh ==
    /\ \A p \in Callers :
          Racer(p)
          => /\ (obs[p].exchanged = "ok" /\ obs[p].fact = "ok") => result[p].ok
             /\ ~result[p].ok
                => \/ obs[p].sts_res \notin {"none", "ok"}
                   \/ obs[p].exchanged # "ok"
                   \/ obs[p].fact # "ok"
             /\ result[p].ok
                => /\ result[p].value.built_with = Issued(p)
                   /\ ParsedExpiry(result[p].value.built_with) - obs[p].now1 >= 300
             /\ obs[p].exchanged = "ok"
                => /\ call[p].role_name \in DOMAIN credential_cache
                   /\ credential_cache[call[p].role_name].cache_time >= obs[p].now1
    /\ \A p, q \in Callers :
          (/\ p # q /\ Racer(p) /\ Racer(q)
           /\ call[p].role_name = call[q].role_name
           /\ obs[p].exchanged = "ok" /\ obs[q].exchanged = "ok"
           /\ obs[p].now1 <= obs[q].now1)
          => /\ credential_cache[call[p].role_name] \in {Written(p), Written(q)}
             /\ obs[p].now1 < obs[q].now1
                => credential_cache[call[p].role_name] = Written(q)

\* two calls for one role raced: the exchange of the second began and ended
\* while the exchange of the first was in flight, and both returned a handle
C16_Witness ==
    \E p, q \in Callers :
        /\ p # q /\ Racer(p) /\ Racer(q)
        /\ call[p].role_name = call[q].role_name
        /\ result[p].ok /\ result[q].ok
        /\ obs[p].now0 < obs[q].now0 /\ obs[q].now1 < obs[p].now1
        /\ credential_cache[call[p].role_name].credentials = Issued(p)

\* C17: when the caller of get_client is cancelled while its exchange is in
\* flight and the exchange succeeds, the credentials of that exchange are
\* in the cache, and a get_client for the role called later, within the
\* validity window of those credentials, calls no exchange.
C17_CancelStores ==
    \A p \in Callers :
        (Cancelled(p) /\ config.enable_caching /\ obs[p].exchanged = "ok")
        => /\ call[p].role_name \in DOMAIN credential_cache
           /\ \A q \in Callers \ {p} :
                 (/\ Done(q, "get_client")
                  /\ call[q].role_name = call[p].role_name
                  /\ obs[q].now0 > obs[p].now1
                  /\ obs[q].now0 - obs[p].now1 <= config.cache_ttl_seconds
                  /\ obs[p].now1 + config.roles[call[p].role_name].duration_seconds
                         - obs[q].now0 >= 300)
                 => Count(trace[q], "assume_role") = 0

\* the JSON value found under a role name is no object, or is an object that
\* RoleConfig rejects
EntryMalformed(entry) ==
    \/ entry.json # "object"
    \/ ~RoleConfig_init(json_decode(entry).v).ok

\* the text of AWS_AUTH_ROLES is set and is malformed: invalid JSON, a
\* document that is no object, or an object with a malformed entry
TableMalformed(text) ==
    \/ text.syntax = "bad"
    \/ /\ text.syntax = "ok"
       /\ \/ text.doc.json # "object"
          \/ \E i \in DOMAIN text.doc.of : EntryMalformed(text.doc.of[i][2])

\* the variables other than AWS_AUTH_ROLES hold nothing that stops the load
RestLoads(env) ==
    int_of(env.AWS_AUTH_CACHE_TTL).ok
        => int_of(env.AWS_AUTH_CACHE_TTL).value \in 300..43200

\* C20: loading the configuration from an environment whose role table is
\* malformed (invalid JSON, a value of the wrong shape, an entry that fails
\* role validation) completes, and the table contributes no role.
C20_MalformedTable ==
    (Loaded /\ TableMalformed(environ.AWS_AUTH_ROLES) /\ RestLoads(environ))
    => /\ loaded.ok
       /\ DOMAIN loaded.value.roles \subseteq {"default"}

\* the arguments RoleConfig(...) was called with
GivenArn == Lookup(role_kwargs, "role_arn").v
GivenAccount == Lookup(role_kwargs, "account_id").v
SessionGiven == HasKey(role_kwargs, "role_session_name")
GivenSession == Lookup(role_kwargs, "role_session_name").v

\* the text begins with the characters arn:aws:iam:: and holds :role/
ArnGrammar(v) ==
    /\ Len(v) >= 13
    /\ \A i \in 1..13 : v[i] = ArnPrefix[i]
    /\ \E k \in 1..Len(v) :
          /\ k + 5 <= Len(v)
          /\ <<v[k], v[k + 1], v[k + 2], v[k + 3], v[k + 4], v[k + 5]>> = RoleMark

\* the text is twelve characters, each one of 0..9
TwelveAsciiDigits(v) == Len(v) = 12 /\ \A i \in 1..12 : v[i] \in Digits

\* C21: RoleConfig construction raises a validation error for every role ARN
\* that does not start with arn:aws:iam:: or does not contain :role/; for an
\* ARN that does both (the other arguments being valid) it succeeds and
\* stores the ARN as it was given.
C21_RoleArn ==
    Built
    => /\ ~ArnGrammar(GivenArn)
          => ~role_built.ok /\ role_built.error.type = "ValidationError"
       /\ (ArnGrammar(GivenArn) /\ GivenAccount = TwelveDigits /\ ~SessionGiven)
          => role_built.ok /\ role_built.value.role_arn = GivenArn

\* a role ARN with the prefix and without :role/ was rejected, the account id
\* being valid
C21_Witness ==
    /\ Built /\ ~role_built.ok
    /\ GivenAccount = TwelveDigits /\ ~SessionGiven
    /\ startswith(GivenArn, ArnPrefix) /\ ~contains(GivenArn, RoleMark)
    /\ Len(GivenArn) > Len(ArnPrefix)

\* C22: RoleConfig construction raises a validation error for every account
\* id that is not exactly twelve of the digits 0..9.
C22_AccountId ==
    (Built /\ ~TwelveAsciiDigits(GivenAccount))
    => ~role_built.ok /\ role_built.error.type = "ValidationError"

\* the text is non-empty, at most 64 characters long and made of characters
\* of [A-Za-z0-9+=,.@-] only
LabelGrammar(v) ==
    /\ v # <<>> /\ Len(v) <= 64
    /\ \A i \in DOMAIN v : v[i] \in AsciiLetters \cup Digits \cup SessionPunctuation

\* C23: RoleConfig construction (role ARN and account id being valid) accepts
\* a session name exactly when it is non-empty, at most 64 characters long
\* and made only of characters of [A-Za-z0-9+=,.@-].
C23_SessionName ==
    (Built /\ SessionGiven /\ ArnGrammar(GivenArn)
        /\ TwelveAsciiDigits(GivenAccount))
    => (role_built.ok <=> LabelGrammar(GivenSession))

\* the AWS core tool has returned or raised
ToolDone == tool_pc = "done"
\* the tool's error dict tells of the exception e
ToolReports(e) ==
    /\ tool_out.ok
    /\ tool_out.value.status = "error"
    /\ tool_out.value.message.text = str_of(e)
    /\ tool_out.value.message.text.message = exc_message(e)
    /\ tool_out.value.role_name = or_default(tool_args.role_name)

KeysGiven ==
    {p \in {"google", "anthropic", "bedrock"} :
        LET x == CASE p = "google" -> model_env.GOOGLE_API_KEY
                   [] p = "anthropic" -> model_env.ANTHROPIC_API_KEY
                   [] p = "bedrock" -> model_env.BEDROCK_INFERENCE_PROFILE
        IN x.type = "str" /\ \E i \in DOMAIN x.v : x.v[i] \notin Whitespace}
Priority(p) == CASE p = "google" -> 1 [] p = "anthropic" -> 2 [] p = "bedrock" -> 3

\* C25: get_configured_model takes the provider of highest priority (Google,
\* then Anthropic, then Bedrock) among those whose key is set and not blank;
\* with no such key it raises ModelConfigurationError.
C25_ProviderPriority ==
    Configured =>
        /\ KeysGiven = {} =>
              /\ model_provider = "none"
              /\ ~model_out.ok
              /\ model_out.error.type = "ModelConfigurationError"
        /\ KeysGiven # {} =>
              /\ model_provider \in KeysGiven
              /\ \A p \in KeysGiven : Priority(model_provider) <= Priority(p)
        /\ model_provider = "google" => model_out.ok /\ model_out.value.type = "str"
        /\ (model_out.ok /\ model_provider # "google") => model_out.value.type = "LiteLlm"

\* Bedrock was chosen although the Google key is set, because it is blank,
\* and the Anthropic key is unset
C25_Witness ==
    /\ Configured
    /\ model_provider = "bedrock"
    /\ model_out.ok
    /\ model_env.GOOGLE_API_KEY = PyStr(<<" ", "\t", " ">>)
    /\ model_env.ANTHROPIC_API_KEY = PyNone

BedrockPrefix == <<"b", "e", "d", "r", "o", "c", "k", "/">>

\* C26: when Bedrock is chosen and the credential check succeeds, the model
\* is LiteLlm with the model name "bedrock/" followed by the configured
\* inference profile.  Violated: the profile is passed without that prefix.
C26_BedrockModel ==
    (Configured /\ model_provider = "bedrock" /\ model_out.ok) =>
        model_out.value = LiteLlm(BedrockPrefix \o model_env.BEDROCK_INFERENCE_PROFILE.v)

\* C27: in every state of the broker reached through get_client, refresh,
\* clear_cache and add_role, every role name that has an entry in the cache
\* is registered in the configuration, and the cache, a mapping from role
\* names, holds one entry for it: a record of credentials and the time they
\* were stored.
C27_CachedRolesRegistered ==
    /\ DOMAIN credential_cache \subseteq DOMAIN config.roles
    /\ \A r \in DOMAIN credential_cache :
          /\ DOMAIN credential_cache[r] = {"credentials", "cache_time"}
          /\ get_role(config, r) # <<>>

\* the role added by add_role has been exchanged and cached beside the
\* role that was registered from the start
C27_Witness ==
    /\ "ghost" \in DOMAIN credential_cache
    /\ "prod" \in DOMAIN credential_cache

\* caller p's get_client for a role has ended after it found the entry valid
\* or after its exchange succeeded
Served(p) ==
    /\ Done(p, "get_client")
    /\ Truthy(call[p].role_name)
    /\ obs[p].valid \/ obs[p].exchanged = "ok"

\* C28: with caching enabled, whatever clear_cache calls run while a
\* get_client for a registered role is suspended, that get_client reads the
\* entry it relies on: it reaches the client factory, fails only when the
\* factory fails, and the handle it returns is built with the credentials of
\* its role's exchange.
C28_ClearInterleaved ==
    \A p \in Callers :
        (config.enable_caching /\ Served(p)) =>
            /\ obs[p].fact # "none"
            /\ obs[p].fact = "ok" =>
                  /\ result[p].ok
                  /\ result[p].value.built_with # NoKeys
                  /\ result[p].value.aws_session_token # <<>>
            /\ obs[p].exchanged = "ok" =>
                  (result[p].ok =>
                      result[p].value.built_with.access_key_id
                          = <<"AccessKeyId", call[p].serial>>)
            /\ ~result[p].ok => obs[p].fact # "ok"

\* a clear_cache of every role ran between the start of caller 1's
\* get_client for prod, which saw dev's entry, and the store of its
\* refresh, and caller 1 got its handle
C28_Witness ==
    /\ config.enable_caching
    /\ Served(1)
    /\ call[1].role_name = "prod"
    /\ obs[1].exchanged = "ok"
    /\ result[1].ok
    /\ "dev" \in DOMAIN obs[1].cache0
    /\ Done(2, "clear_cache")
    /\ call[2].role_name = NoneVal
    /\ "dev" \in DOMAIN obs[2].cache0
    /\ "prod" \notin DOMAIN obs[2].cache0
    /\ DOMAIN credential_cache = {"prod"}

\* the keys of the stored sessions of thread ts that have not expired
LiveSessions(ts) ==
    {k \in DOMAIN sessions :
        /\ heap[sessions[k]].thread_ts = ts
        /\ ~is_expired(heap[sessions[k]], slack_now)}

\* C29: after any interleaving of message-processing tasks, at most one
\* unexpired session is stored for a thread of the channel, and
\* thread_session_map names the key of that session.  Violated: a reply
\* of another user in the thread is given a session of its own while the
\* task of the top-level message waits for its acknowledgment, and that
\* task then moves its author's session into the same thread.
C29_OneSessionPerThread ==
    \A ts \in Threads :
        /\ Cardinality(LiveSessions(ts)) <= 1
        /\ \A k \in LiveSessions(ts) :
              /\ thread_key(Channel, ts) \in DOMAIN thread_session_map
              /\ thread_session_map[thread_key(Channel, ts)] = k

\* the users on whose behalf the bot is processing or has processed
Processed ==
    {tasks[t].user : t \in {u \in SlackTasks : tasks[u].pc # "free"}}
        \cup {heap[o].user : o \in DOMAIN heap}
        \cup {heap[o].current_user : o \in DOMAIN heap}
        \cup {c.user_id[2] : c \in api_calls}

\* C30: is_user_whitelisted(user) holds exactly when whitelisting is
\* disabled or the user is in the whitelist; with whitelisting enabled no
\* task runs, no session is created or touched and nothing is sent to the
\* agent API for a user outside the whitelist.
C30_Whitelist ==
    /\ \A u \in SlackUsers :
          is_user_whitelisted(u) <=> (~whitelist.enabled \/ u \in whitelist.users)
    /\ whitelist.enabled => Processed \subseteq whitelist.users

\* events of a user outside the whitelist have reached both handlers while
\* a whitelisted user's message went to the agent API
C30_Witness ==
    /\ whitelist.enabled
    /\ \E e \in seen : e.user \notin whitelist.users /\ e.type = "app_mention"
    /\ \E e \in seen : e.user \notin whitelist.users /\ e.type = "message"
    /\ \E c \in api_calls : c.endpoint = "run"

====
